---- MODULE Spec2Model ----
(***************************************************************************)
(* State-machine model of the BIM audit application's rule-matching and    *)
(* reconciliation engine: the text normalizer (utils/text.ts), the QA/QC   *)
(* page, the MIDP-vs-ACC reconciler, the parameter compliance analyser and *)
(* the weekly delivery window.                                             *)
(*                                                                         *)
(* Strings are sequences of Unicode code points.  A JavaScript cell value  *)
(* is a record [t, s, n]: t is its typeof, s the characters of a string,   *)
(* n the value of a number (booleans use n = 1 / 0).                       *)
(***************************************************************************)
EXTENDS Integers, Sequences, FiniteSets, TLC

NULL == [t |-> "null", s |-> <<>>, n |-> 0]

\* ------------------------------------------------------------------------
\* State
\* ------------------------------------------------------------------------

\* Text normalizer
VARIABLES
  textInput,      \* the value last handed to cleanText
  textOutput      \* what cleanText returned for it

\* MIDPCheckPage
VARIABLES
  midpFile,          \* TRUE when a MIDP sheet is shown as selected
  accFile,           \* TRUE when an ACC sheet is shown as selected
  midpData,          \* FileUploadResult of the MIDP sheet, NULL when none
  accData,           \* FileUploadResult of the ACC sheet, NULL when none
  comparisonResult,  \* the stored comparison [items |-> array], NULL when none
  midpIsLoading,     \* isLoading of MIDPCheckPage
  compareTimers,     \* pending setTimeout callbacks: the maps each closed over
  midpUploads        \* number of file events handled so far

\* handleAnalysis of QaqcPage, its vocabulary step on its own
VARIABLES
  tokText,        \* the source text last tokenized, NULL before
  tokTokens       \* the pdfTokens set built from it

\* handleAnalysis of QaqcPage, its "1. File Name" step on its own
VARIABLES
  fnText,         \* the source text of the run, NULL before
  fnTokens,       \* pdfTokens of the run
  fnSheet,        \* excelData of the run, NULL before
  fnResult        \* newResults.fileName [items |-> array], NULL before

\* QaqcPage
VARIABLES
  qaqcPdfText,         \* pdfText of the analysis context, NULL before an analysis
  qaqcFile,            \* TRUE when a spreadsheet is shown as selected
  qaqcExcelData,       \* excelData [rows |-> array], NULL when none
  qaqcReads,           \* sheets handed to a FileReader whose onload is pending
  qaqcSelectedChecks,  \* selectedChecks: check key -> BOOLEAN
  qaqcResults,         \* results: check key -> result, NULL when none
  qaqcError,           \* error of QaqcPage, NULL when none
  qaqcAudited          \* history: the handler that ran last was handleAnalysis

\* handleAnalyze of ParameterCheckPage, its compliance step on its own
VARIABLES
  compColumns,     \* analyzableHeaders of the run [items |-> array], NULL before
  compRequired,    \* standardParams of the run [items |-> array], NULL when none
  compResult,      \* complianceResult, NULL when none
  compError        \* error, NULL when none

\* getDeliveryWindow of WeeklyUpdatesPage on its own
VARIABLES
  winNow,         \* the instant new Date() gave, NULL before
  winZone,        \* minutes the local clock is ahead of UTC
  winWindow       \* the window returned [start, end], NULL before

\* reader.onload of WeeklyUpdatesPage.parseExcel
VARIABLES
  wkJson,         \* the rows read [rows |-> array], NULL before
  wkZone,         \* minutes the local clock is ahead of UTC
  wkResult,       \* analysisResult [items |-> array], NULL when none
  wkSummary,      \* summary, NULL when none
  wkError         \* error, NULL when none

\* reader.onload of Qaqc2Page.processFiles
VARIABLES
  q2Text,          \* pdfText of the run, NULL before
  q2Json,          \* the rows read [rows |-> array], NULL before
  q2Results,       \* results of Qaqc2Page, NULL when none
  q2Error          \* error of Qaqc2Page, NULL when none

\* handleAnalysis of QaqcPage, one run on a sheet with one checked column
VARIABLES
  chkText,         \* sourceText of the run, NULL before
  chkKey,          \* the check whose column the sheet carries
  chkSheet,        \* excelData of the run [rows |-> array], NULL before
  chkResults      \* newResults of the run, NULL before

\* handleAnalysis of QaqcPage, one run on a sheet with the columns of three checks
VARIABLES
  frText,          \* sourceText of the run, NULL before
  frSheet,         \* excelData of the run [rows |-> array], NULL before
  frSelected,      \* selectedChecks of the run
  frResults       \* newResults of the run, NULL before

\* header lookups of FileUploader and QaqcPage on the same headers
VARIABLES
  hdrHeaders,      \* headers of the sheet [items |-> array], NULL before
  hdrName,         \* actualNameHeader of the manifest upload
  hdrFileName     \* h of the file name check

\* reader.onload of ClashAnalysisPage.analyzeFile
VARIABLES
  clashJson,       \* json of the sheet read [rows |-> array], NULL before
  clashData,       \* clashData, NULL when none
  clashError      \* error, NULL when none

\* handleAnalyze of ParameterCheckPage, its completion counts
VARIABLES
  fillJson,        \* jsonData of the run [rows |-> array], NULL before
  fillSummary,     \* analysisSummary [items |-> array], NULL when none
  fillSources,     \* sourceFileSummary [items |-> array], NULL when none
  fillError       \* error, NULL when none

\* QaqcPage, the selected file followed by name
VARIABLES
  selPdfText,      \* pdfText of the context, NULL when none
  selFile,         \* file, [json |-> sheet] of the file shown as selected, NULL when none
  selExcelData,    \* excelData [rows |-> array], NULL when none
  selReads,        \* files handed to a FileReader whose onload is pending
  selResults,      \* results, one entry per check
  selError,        \* error, NULL when none
  selAudited      \* history: the file shown and the rows read by the last handleAnalysis

\* AnalysisPage and the AnalysisProvider it writes to
VARIABLES
  anFiles,         \* files, the PDFs listed on the page
  anIsLoading,     \* isLoading
  anError,         \* error, NULL when none
  anAnalysisResult, \* analysisResult of the context, NULL when none
  anPdfText,       \* pdfText of the context, NULL when none
  anDocuments,     \* documents of the context
  anPdfImages,     \* pdfImages of the context
  anPdfFileName,   \* pdfFileName of the context
  anRuns          \* calls of handleAnalyze awaiting their PDFs, each with the files it saw

textVars == <<textInput, textOutput>>

winVars == <<winNow, winZone, winWindow>>

wkVars == <<wkJson, wkZone, wkResult, wkSummary, wkError>>

compVars == <<compColumns, compRequired, compResult, compError>>

qaqcVars == <<qaqcPdfText, qaqcFile, qaqcExcelData, qaqcReads,
              qaqcSelectedChecks, qaqcResults, qaqcError, qaqcAudited>>

tokVars == <<tokText, tokTokens>>

fnVars == <<fnText, fnTokens, fnSheet, fnResult>>

midpVars == <<midpFile, accFile, midpData, accData, comparisonResult,
              midpIsLoading, compareTimers, midpUploads>>

q2Vars == <<q2Text, q2Json, q2Results, q2Error>>

chkVars == <<chkText, chkKey, chkSheet, chkResults>>

frameVars == <<frText, frSheet, frSelected, frResults>>

hdrVars == <<hdrHeaders, hdrName, hdrFileName>>

clashVars == <<clashJson, clashData, clashError>>

fillVars == <<fillJson, fillSummary, fillSources, fillError>>

selVars == <<selPdfText, selFile, selExcelData, selReads, selResults, selError, selAudited>>

anVars == <<anFiles, anIsLoading, anError, anAnalysisResult, anPdfText, anDocuments, anPdfImages, anPdfFileName, anRuns>>

vars == <<textVars, midpVars, tokVars, fnVars, qaqcVars, compVars, winVars,
    wkVars, q2Vars, chkVars, frameVars, hdrVars, clashVars, fillVars,
    selVars, anVars>>

\* What the actions of one page leave alone: the state of the other pages.
notTextVars ==
  <<midpVars, tokVars, fnVars, qaqcVars, compVars, winVars, wkVars, q2Vars,
    chkVars, frameVars, hdrVars, clashVars, fillVars, selVars, anVars>>
notMidpVars ==
  <<textVars, tokVars, fnVars, qaqcVars, compVars, winVars, wkVars, q2Vars,
    chkVars, frameVars, hdrVars, clashVars, fillVars, selVars, anVars>>
notTokVars ==
  <<textVars, midpVars, fnVars, qaqcVars, compVars, winVars, wkVars,
    q2Vars, chkVars, frameVars, hdrVars, clashVars, fillVars, selVars,
    anVars>>
notFnVars ==
  <<textVars, midpVars, tokVars, qaqcVars, compVars, winVars, wkVars,
    q2Vars, chkVars, frameVars, hdrVars, clashVars, fillVars, selVars,
    anVars>>
notQaqcVars ==
  <<textVars, midpVars, tokVars, fnVars, compVars, winVars, wkVars, q2Vars,
    chkVars, frameVars, hdrVars, clashVars, fillVars, selVars, anVars>>
notCompVars ==
  <<textVars, midpVars, tokVars, fnVars, qaqcVars, winVars, wkVars, q2Vars,
    chkVars, frameVars, hdrVars, clashVars, fillVars, selVars, anVars>>
notWinVars ==
  <<textVars, midpVars, tokVars, fnVars, qaqcVars, compVars, wkVars,
    q2Vars, chkVars, frameVars, hdrVars, clashVars, fillVars, selVars,
    anVars>>
notWkVars ==
  <<textVars, midpVars, tokVars, fnVars, qaqcVars, compVars, winVars,
    q2Vars, chkVars, frameVars, hdrVars, clashVars, fillVars, selVars,
    anVars>>
notQ2Vars ==
  <<textVars, midpVars, tokVars, fnVars, qaqcVars, compVars, winVars,
    wkVars, chkVars, frameVars, hdrVars, clashVars, fillVars, selVars,
    anVars>>
notChkVars ==
  <<textVars, midpVars, tokVars, fnVars, qaqcVars, compVars, winVars,
    wkVars, q2Vars, frameVars, hdrVars, clashVars, fillVars, selVars,
    anVars>>
notFrameVars ==
  <<textVars, midpVars, tokVars, fnVars, qaqcVars, compVars, winVars,
    wkVars, q2Vars, chkVars, hdrVars, clashVars, fillVars, selVars, anVars>>
notHdrVars ==
  <<textVars, midpVars, tokVars, fnVars, qaqcVars, compVars, winVars,
    wkVars, q2Vars, chkVars, frameVars, clashVars, fillVars, selVars,
    anVars>>
notClashVars ==
  <<textVars, midpVars, tokVars, fnVars, qaqcVars, compVars, winVars,
    wkVars, q2Vars, chkVars, frameVars, hdrVars, fillVars, selVars, anVars>>
notFillVars ==
  <<textVars, midpVars, tokVars, fnVars, qaqcVars, compVars, winVars,
    wkVars, q2Vars, chkVars, frameVars, hdrVars, clashVars, selVars,
    anVars>>
notSelVars ==
  <<textVars, midpVars, tokVars, fnVars, qaqcVars, compVars, winVars,
    wkVars, q2Vars, chkVars, frameVars, hdrVars, clashVars, fillVars,
    anVars>>
notAnVars ==
  <<textVars, midpVars, tokVars, fnVars, qaqcVars, compVars, winVars,
    wkVars, q2Vars, chkVars, frameVars, hdrVars, clashVars, fillVars,
    selVars>>

\* ------------------------------------------------------------------------
\* Characters and strings
\* ------------------------------------------------------------------------

\* Code points of the characters the inputs below are written with.
CharTable ==
  {<<"A", 65>>, <<"B", 66>>, <<"C", 67>>, <<"D", 68>>, <<"E", 69>>,
    <<"F", 70>>, <<"G", 71>>, <<"H", 72>>, <<"I", 73>>, <<"J", 74>>,
    <<"K", 75>>, <<"L", 76>>, <<"M", 77>>, <<"N", 78>>, <<"O", 79>>,
    <<"P", 80>>, <<"Q", 81>>, <<"R", 82>>, <<"S", 83>>, <<"T", 84>>,
    <<"U", 85>>, <<"V", 86>>, <<"W", 87>>, <<"X", 88>>, <<"Y", 89>>,
    <<"Z", 90>>, <<"a", 97>>, <<"b", 98>>, <<"c", 99>>, <<"d", 100>>,
    <<"e", 101>>, <<"f", 102>>, <<"g", 103>>, <<"h", 104>>, <<"i", 105>>,
    <<"j", 106>>, <<"k", 107>>, <<"l", 108>>, <<"m", 109>>, <<"n", 110>>,
    <<"o", 111>>, <<"p", 112>>, <<"q", 113>>, <<"r", 114>>, <<"s", 115>>,
    <<"t", 116>>, <<"u", 117>>, <<"v", 118>>, <<"w", 119>>, <<"x", 120>>,
    <<"y", 121>>, <<"z", 122>>, <<"0", 48>>, <<"1", 49>>, <<"2", 50>>,
    <<"3", 51>>, <<"4", 52>>, <<"5", 53>>, <<"6", 54>>, <<"7", 55>>,
    <<"8", 56>>, <<"9", 57>>, <<"-", 45>>, <<"_", 95>>, <<".", 46>>,
    <<" ", 32>>, <<",", 44>>, <<";", 59>>, <<"|", 124>>, <<"(", 40>>,
    <<")", 41>>, <<"[", 91>>, <<"]", 93>>, <<"{", 123>>, <<"}", 125>>,
    <<"/", 47>>, <<":", 58>>, <<"'", 39>>, <<"%", 37>>, <<"TAB", 9>>,
    <<"LF", 10>>, <<"NUL", 0>>, <<"BS", 8>>, <<"DEL", 127>>, <<"LRE", 8234>>,
    <<"ZWSP", 8203>>, <<"SHY", 173>>, <<"NBSP", 160>>, <<"\"", 34>>}

Cp == [c \in {e[1] : e \in CharTable} |-> (CHOOSE e \in CharTable : e[1] = c)[2]]

\* The string written with the characters named in t.
S(t) == [i \in DOMAIN t |-> Cp[t[i]]]

Str(s) == [t |-> "string", s |-> s, n |-> 0]
Num(n) == [t |-> "number", s |-> <<>>, n |-> n]
Bool(b) == [t |-> "boolean", s |-> <<>>, n |-> IF b THEN 1 ELSE 0]

\* All strings over alphabet of length at most n.
RECURSIVE StringsUpTo(_, _)
StringsUpTo(alphabet, n) ==
  IF n = 0 THEN {<<>>}
  ELSE LET shorter == StringsUpTo(alphabet, n - 1)
       IN  shorter \cup {Append(s, c) : s \in shorter, c \in alphabet}

\* Unicode general category Cc (control): C0, DEL and C1.
IsCc(c) == c \in (0..31) \cup (127..159)

\* Unicode general category Cf (format), Basic Multilingual Plane.
IsCf(c) ==
  c \in {173, 1564, 1757, 1807, 2192, 2193, 2274, 6158, 65279}
        \cup (1536..1541) \cup (8203..8207) \cup (8234..8238)
        \cup (8288..8292) \cup (8294..8303) \cup (65529..65531)

\* ------------------------------------------------------------------------
\* Text normalizer (utils/text.ts)
\* ------------------------------------------------------------------------

\* The character class [\p{Cc}\p{Cf}] of the replace: TRUE for a character kept.
Kept(c) == ~(IsCc(c) \/ IsCf(c))

cleanText(input) ==
  IF input.t # "string" THEN input
  ELSE Str(SelectSeq(input.s, Kept))

\* Longest string handed to the normalizer.
MaxTextLen == 3

TextAlphabet == {Cp["a"], Cp[" "], Cp["TAB"], Cp["LF"], Cp["NUL"], Cp["LRE"]}

TextInputs ==
  {Str(s) : s \in StringsUpTo(TextAlphabet, MaxTextLen)}
    \cup {Num(0), Num(12), Bool(TRUE)}

InitText ==
  /\ textInput = NULL
  /\ textOutput = NULL

\* One call of cleanText on an ingested value.
CleanTextCall ==
  \E input \in TextInputs :
    /\ textInput = NULL
    /\ textInput' = input
    /\ textOutput' = cleanText(input)
    /\ UNCHANGED notTextVars

IsOrdinaryWhitespace(c) == c \in {Cp[" "], Cp["TAB"], Cp["LF"]}
IsCcOrCf(c) == IsCc(c) \/ IsCf(c)
NotCcOrCf(c) == ~IsCcOrCf(c)

\* C5: the normalizer removes every code point of category Cc or Cf and
\* nothing else, and every space, tab and newline of the input is preserved
\* in the output in its original order.
C5_RemovesCcCfKeepsWhitespace ==
  textInput.t = "string" =>
    /\ textOutput.s = SelectSeq(textInput.s, NotCcOrCf)
    /\ SelectSeq(textOutput.s, IsOrdinaryWhitespace)
         = SelectSeq(textInput.s, IsOrdinaryWhitespace)

\* ------------------------------------------------------------------------
\* JavaScript string helpers
\* ------------------------------------------------------------------------

\* White space of String.prototype.trim and of \s (Basic Multilingual Plane).
IsJsWhitespace(c) ==
  c \in {9, 10, 11, 12, 13, 32, 160, 5760, 8232, 8233, 8239, 8287, 12288, 65279}
        \cup (8192..8202)

RECURSIVE TrimStart(_)
TrimStart(s) ==
  IF s # <<>> /\ IsJsWhitespace(Head(s)) THEN TrimStart(Tail(s)) ELSE s

RECURSIVE TrimEnd(_)
TrimEnd(s) ==
  IF s # <<>> /\ IsJsWhitespace(s[Len(s)])
  THEN TrimEnd(SubSeq(s, 1, Len(s) - 1)) ELSE s

Trim(s) == TrimEnd(TrimStart(s))

LowerChar(c) == IF c \in 65..90 THEN c + 32 ELSE c
UpperChar(c) == IF c \in 97..122 THEN c - 32 ELSE c
ToLowerCase(s) == [i \in DOMAIN s |-> LowerChar(s[i])]
ToUpperCase(s) == [i \in DOMAIN s |-> UpperChar(s[i])]

\* Decimal digits of a natural number, as Number.prototype.toString gives them.
RECURSIVE Digits(_)
Digits(n) ==
  IF n < 10 THEN <<48 + n>> ELSE Append(Digits(n \div 10), 48 + (n % 10))

\* String(v)
JsString(v) ==
  CASE v.t = "string" -> v.s
    [] v.t = "number" -> IF v.n < 0 THEN <<45>> \o Digits(-v.n) ELSE Digits(v.n)
    [] v.t = "boolean" -> IF v.n = 1 THEN S(<<"t","r","u","e">>)
                                     ELSE S(<<"f","a","l","s","e">>)
    [] v.t = "undefined" -> S(<<"u","n","d","e","f","i","n","e","d">>)
    [] OTHER -> S(<<"n","u","l","l">>)

\* ToBoolean(v)
Truthy(v) ==
  CASE v.t = "string" -> v.s # <<>>
    [] v.t = "number" -> v.n # 0
    [] v.t = "boolean" -> v.n = 1
    [] OTHER -> FALSE

\* v || ''
OrEmpty(v) == IF Truthy(v) THEN v ELSE Str(<<>>)

\* Index of the first occurrence of character c in s, 0 when there is none.
IndexOfChar(s, c) ==
  IF \E i \in DOMAIN s : s[i] = c
  THEN CHOOSE i \in DOMAIN s : s[i] = c /\ \A j \in 1..(i - 1) : s[j] # c
  ELSE 0

\* s.split(c) for a one-character separator c.
RECURSIVE SplitChar(_, _)
SplitChar(s, c) ==
  LET i == IndexOfChar(s, c)
  IN  IF i = 0 THEN <<s>>
      ELSE <<SubSeq(s, 1, i - 1)>> \o SplitChar(SubSeq(s, i + 1, Len(s)), c)

\* Collation class of a character under String.prototype.localeCompare:
\* white space and punctuation sort before digits, digits before letters.
CollationKey(c) ==
  IF c \in 48..57 THEN 1000 + c
  ELSE IF LowerChar(c) \in 97..122 THEN 2000 + LowerChar(c)
  ELSE c

\* s sorts strictly before t at primary strength (letters compared without case).
RECURSIVE PrimaryLess(_, _)
PrimaryLess(s, t) ==
  IF t = <<>> THEN FALSE
  ELSE IF s = <<>> THEN TRUE
  ELSE IF CollationKey(Head(s)) # CollationKey(Head(t))
       THEN CollationKey(Head(s)) < CollationKey(Head(t))
  ELSE PrimaryLess(Tail(s), Tail(t))

\* Tie-break of equal primary keys: a lower-case letter sorts before its capital.
RECURSIVE CaseLess(_, _)
CaseLess(s, t) ==
  IF s = <<>> \/ t = <<>> THEN FALSE
  ELSE IF Head(s) # Head(t) THEN Head(s) > Head(t)
  ELSE CaseLess(Tail(s), Tail(t))

\* a.localeCompare(b) as -1, 0, 1.
LocaleCompare(a, b) ==
  IF PrimaryLess(a, b) THEN -1
  ELSE IF PrimaryLess(b, a) THEN 1
  ELSE IF CaseLess(a, b) THEN -1
  ELSE IF CaseLess(b, a) THEN 1
  ELSE 0

\* ------------------------------------------------------------------------
\* MIDP-vs-ACC reconciler (pages/MIDPCheckPage.tsx)
\* ------------------------------------------------------------------------

MILESTONES == {"50% CONCEPT DESIGN", "100% CONCEPT DESIGN",
               "50% SCHEMATIC DESIGN", "100% SCHEMATIC DESIGN"}

\* Cell texts that do not tag a row with a milestone.
falseValues ==
  {S(<<"n","o">>), S(<<"f","a","l","s","e">>), S(<<"n","/","a">>), S(<<"-">>),
   S(<<"0">>), S(<<"n","a","n">>), <<>>}

\* The milestones one row is tagged with: row.ms maps each milestone column
\* found among the headers to the row's cell.
RowMilestones(row) ==
  {key \in DOMAIN row.ms :
     ToLowerCase(Trim(JsString(row.ms[key]))) \notin falseValues}

RowBaseName(row) == Trim(JsString(cleanText(row.name)))

StripLeadingDot(s) == IF s # <<>> /\ Head(s) = 46 THEN Tail(s) ELSE s

ExtensionKeepCase(row) ==
  StripLeadingDot(Trim(JsString(OrEmpty(cleanText(row.format)))))

RowExtension(row) ==
  ToLowerCase(StripLeadingDot(Trim(JsString(OrEmpty(cleanText(row.format))))))

EmptyFileData == [k \in {} |-> 0]

\* One step of the forEach that builds columnData: the map after a row.
AddRow(columnData, row) ==
  LET originalBaseName == RowBaseName(row)
      key == ToLowerCase(originalBaseName)
      extension == RowExtension(row)
      old == IF key \in DOMAIN columnData
             THEN [columnData[key] EXCEPT
                     !.milestones = @ \cup RowMilestones(row)]
             ELSE [originalCase |-> originalBaseName,
                   formatCounts |-> [f \in {} |-> 0],
                   milestones |-> RowMilestones(row)]
      counts == old.formatCounts
      item == IF extension = <<>> THEN old
              ELSE [old EXCEPT !.formatCounts =
                      [f \in DOMAIN counts \cup {extension} |->
                         IF f = extension
                         THEN (IF f \in DOMAIN counts THEN counts[f] ELSE 0) + 1
                         ELSE counts[f]]]
  IN  IF originalBaseName = <<>> THEN columnData
      ELSE [k \in DOMAIN columnData \cup {key} |->
              IF k = key THEN item ELSE columnData[k]]

RECURSIVE BuildColumnData(_)
BuildColumnData(rows) ==
  IF rows = <<>> THEN EmptyFileData
  ELSE AddRow(BuildColumnData(SubSeq(rows, 1, Len(rows) - 1)), rows[Len(rows)])

CountedRows(rows) == Len(SelectSeq(rows, LAMBDA r : RowBaseName(r) # <<>>))

\* The FileUploadResult handed to onFileUploaded for a sheet of rows.
ParseManifest(rows) ==
  [data |-> BuildColumnData(rows), totalRows |-> CountedRows(rows)]


NoFile == FALSE

\* Longest manifest sheet, in rows.
MaxManifestRows == 2
\* File events (loads and rejections) in one run of the page.
MaxManifestUploads == 2

NoMilestoneCells == [k \in {} |-> NULL]

ManifestRow(name, format, ms) == [name |-> Str(S(name)), format |-> format, ms |-> ms]

\* The rows manifests are made of: two spellings of one base name, a second
\* base name, formats written with and without dot and capitals, an empty
\* format cell, an empty name cell, a numeric format cell.
ManifestRows ==
  {ManifestRow(<<"A">>, Str(S(<<"p","d","f">>)), NoMilestoneCells),
   ManifestRow(<<"a"," ">>, Str(S(<<".","P","D","F">>)),
               [k \in {"50% CONCEPT DESIGN"} |-> Str(S(<<"X">>))]),
   ManifestRow(<<"A">>, Str(S(<<"d","w","g">>)),
               [k \in {"50% CONCEPT DESIGN"} |-> Str(S(<<"n","o">>))]),
   ManifestRow(<<"B">>, Str(<<>>),
               [k \in {"100% CONCEPT DESIGN"} |-> Num(1)]),
   ManifestRow(<<"B">>, Str(S(<<"p","d","f">>)), NoMilestoneCells),
   ManifestRow(<<" ">>, Str(S(<<"p","d","f">>)), NoMilestoneCells)}

RECURSIVE SeqsUpTo(_, _)
SeqsUpTo(elems, n) ==
  IF n = 0 THEN {<<>>}
  ELSE LET shorter == SeqsUpTo(elems, n - 1)
       IN  shorter \cup {Append(s, e) : s \in shorter, e \in elems}

\* Sheets with at least one row (an empty sheet is rejected, see FileRejected).
ManifestSheets == SeqsUpTo(ManifestRows, MaxManifestRows) \ {<<>>}

\* What the uploader hands to onFileUploaded for these sheets.
ManifestUploads == {ParseManifest(rows) : rows \in ManifestSheets}

InitMidp ==
  /\ midpFile = NoFile
  /\ accFile = NoFile
  /\ midpData = NULL
  /\ accData = NULL
  /\ comparisonResult = NULL
  /\ midpIsLoading = FALSE
  /\ compareTimers = {}
  /\ midpUploads = 0

\* reader.onload of the MIDP uploader, the sheet parsed with its columns found:
\* onFileUploaded(file, result).
MidpFileLoaded ==
  \E result \in ManifestUploads :
    /\ midpUploads < MaxManifestUploads
    /\ midpUploads' = midpUploads + 1
    /\ midpFile' = TRUE
    /\ midpData' = result
    /\ comparisonResult' = NULL
    /\ UNCHANGED <<accFile, accData, midpIsLoading, compareTimers>>
    /\ UNCHANGED notMidpVars

AccFileLoaded ==
  \E result \in ManifestUploads :
    /\ midpUploads < MaxManifestUploads
    /\ midpUploads' = midpUploads + 1
    /\ accFile' = TRUE
    /\ accData' = result
    /\ comparisonResult' = NULL
    /\ UNCHANGED <<midpFile, midpData, midpIsLoading, compareTimers>>
    /\ UNCHANGED notMidpVars

\* Every path of the uploader that ends in onFileUploaded(null, null): no file
\* chosen, a wrong file type, an empty sheet, a missing column, a read error.
MidpFileRejected ==
  /\ midpUploads < MaxManifestUploads
  /\ midpUploads' = midpUploads + 1
  /\ midpFile' = NoFile
  /\ midpData' = NULL
  /\ comparisonResult' = NULL
  /\ UNCHANGED <<accFile, accData, midpIsLoading, compareTimers>>
  /\ UNCHANGED notMidpVars

AccFileRejected ==
  /\ midpUploads < MaxManifestUploads
  /\ midpUploads' = midpUploads + 1
  /\ accFile' = NoFile
  /\ accData' = NULL
  /\ comparisonResult' = NULL
  /\ UNCHANGED <<midpFile, midpData, midpIsLoading, compareTimers>>
  /\ UNCHANGED notMidpVars

\* A click on Compare (the button is disabled without both files or while
\* loading): clears the result and defers the computation by 100 ms; the
\* callback closes over the maps of this render.
handleCompare ==
  /\ midpFile # NoFile /\ accFile # NoFile /\ ~midpIsLoading
  /\ midpData # NULL /\ accData # NULL
  /\ midpIsLoading' = TRUE
  /\ comparisonResult' = NULL
  /\ compareTimers' = compareTimers \cup
                        {[midpMap |-> midpData.data, accMap |-> accData.data]}
  /\ UNCHANGED <<midpFile, accFile, midpData, accData, midpUploads>>
  /\ UNCHANGED notMidpVars

CountOf(map, key, format) ==
  IF key \in DOMAIN map /\ format \in DOMAIN map[key].formatCounts
  THEN map[key].formatCounts[format] ELSE 0

StatusCheckingMismatchFirst(midpCount, accCount) ==
  IF midpCount # accCount THEN "count_mismatch"
  ELSE IF midpCount > 0 /\ accCount = 0 THEN "missing_in_acc"
  ELSE IF midpCount = 0 /\ accCount > 0 THEN "extra_in_acc"
  ELSE "matched"

\* The if / else-if chain that classifies one (base name, format) pair.
ComparisonStatus(midpCount, accCount) ==
  IF midpCount > 0 /\ accCount = 0 THEN "missing_in_acc"
  ELSE IF midpCount = 0 /\ accCount > 0 THEN "extra_in_acc"
  ELSE IF midpCount # accCount THEN "count_mismatch"
  ELSE "matched"

MilestonesOf(map, key) == IF key \in DOMAIN map THEN map[key].milestones ELSE {}

OriginalNameAccFirst(midpMap, accMap, key) ==
  IF key \in DOMAIN accMap /\ accMap[key].originalCase # <<>>
  THEN accMap[key].originalCase
  ELSE IF key \in DOMAIN midpMap /\ midpMap[key].originalCase # <<>>
  THEN midpMap[key].originalCase
  ELSE key

OriginalName(midpMap, accMap, key) ==
  IF key \in DOMAIN midpMap /\ midpMap[key].originalCase # <<>>
  THEN midpMap[key].originalCase
  ELSE IF key \in DOMAIN accMap /\ accMap[key].originalCase # <<>>
  THEN accMap[key].originalCase
  ELSE key

FormatsOrBlankOf(map, key) ==
  IF key \in DOMAIN map
  THEN (IF DOMAIN map[key].formatCounts = {} THEN {<<>>}
        ELSE DOMAIN map[key].formatCounts)
  ELSE {}

\* The formats the inner loops run over for one base name of one side.
FormatsOf(map, key) ==
  IF key \in DOMAIN map THEN DOMAIN map[key].formatCounts ELSE {}

\* The results pushed by the two nested loops, before the sort.
PushedResults(midpMap, accMap) ==
  LET allBaseNames == DOMAIN midpMap \cup DOMAIN accMap
  IN  UNION {
        {[baseName |-> OriginalName(midpMap, accMap, key),
          format |-> ToUpperCase(format),
          midpCount |-> CountOf(midpMap, key, format),
          accCount |-> CountOf(accMap, key, format),
          status |-> ComparisonStatus(CountOf(midpMap, key, format),
                                      CountOf(accMap, key, format)),
          milestones |-> MilestonesOf(midpMap, key) \cup MilestonesOf(accMap, key)]
           : format \in FormatsOf(midpMap, key) \cup FormatsOf(accMap, key)}
        : key \in allBaseNames}

\* The comparator of results.sort.
ResultCompare(a, b) ==
  IF LocaleCompare(a.baseName, b.baseName) # 0
  THEN LocaleCompare(a.baseName, b.baseName)
  ELSE LocaleCompare(a.format, b.format)

RECURSIVE SortResults(_)
SortResults(rs) ==
  IF rs = {} THEN <<>>
  ELSE LET first == CHOOSE x \in rs : \A y \in rs \ {x} : ResultCompare(x, y) < 0
       IN  <<first>> \o SortResults(rs \ {first})

CompareManifests(midpMap, accMap) == SortResults(PushedResults(midpMap, accMap))

\* The deferred callback of handleCompare.
CompareTimeout ==
  \E timer \in compareTimers :
    /\ compareTimers' = compareTimers \ {timer}
    /\ comparisonResult' = [items |-> CompareManifests(timer.midpMap, timer.accMap)]
    /\ midpIsLoading' = FALSE
    /\ UNCHANGED <<midpFile, accFile, midpData, accData, midpUploads>>
    /\ UNCHANGED notMidpVars

\* The counts above the result table (useMemo summary).
CountStatus(items, status) ==
  Cardinality({i \in DOMAIN items : items[i].status = status})

midpSummary ==
  IF comparisonResult = NULL THEN NULL
  ELSE [all |-> Len(comparisonResult.items),
        matched |-> CountStatus(comparisonResult.items, "matched"),
        count_mismatch |-> CountStatus(comparisonResult.items, "count_mismatch"),
        missing_in_acc |-> CountStatus(comparisonResult.items, "missing_in_acc"),
        extra_in_acc |-> CountStatus(comparisonResult.items, "extra_in_acc")]

\* The page again with few manifests and one more file event, for the
\* interleavings of uploads with the deferred comparison.
MaxRaceEvents == 3

RaceUploads ==
  {ParseManifest(<<ManifestRow(<<"A">>, Str(S(<<"p","d","f">>)), NoMilestoneCells)>>),
   ParseManifest(<<ManifestRow(<<"B">>, Str(S(<<"p","d","f">>)), NoMilestoneCells)>>),
   ParseManifest(<<ManifestRow(<<"A">>, Str(S(<<"p","d","f">>)), NoMilestoneCells),
                   ManifestRow(<<"A">>, Str(S(<<"p","d","f">>)), NoMilestoneCells)>>)}

\* onFileUploaded(file, result) of the MIDP uploader, at any moment.
RaceMidpFileLoaded ==
  \E result \in RaceUploads :
    /\ midpUploads < MaxRaceEvents
    /\ midpUploads' = midpUploads + 1
    /\ midpFile' = TRUE
    /\ midpData' = result
    /\ comparisonResult' = NULL
    /\ UNCHANGED <<accFile, accData, midpIsLoading, compareTimers>>
    /\ UNCHANGED notMidpVars

RaceAccFileLoaded ==
  \E result \in RaceUploads :
    /\ midpUploads < MaxRaceEvents
    /\ midpUploads' = midpUploads + 1
    /\ accFile' = TRUE
    /\ accData' = result
    /\ comparisonResult' = NULL
    /\ UNCHANGED <<midpFile, midpData, midpIsLoading, compareTimers>>
    /\ UNCHANGED notMidpVars

\* onFileUploaded(null, null) of either uploader, at any moment.
RaceMidpFileRejected ==
  /\ midpUploads < MaxRaceEvents
  /\ midpUploads' = midpUploads + 1
  /\ midpFile' = NoFile
  /\ midpData' = NULL
  /\ comparisonResult' = NULL
  /\ UNCHANGED <<accFile, accData, midpIsLoading, compareTimers>>
  /\ UNCHANGED notMidpVars

RaceAccFileRejected ==
  /\ midpUploads < MaxRaceEvents
  /\ midpUploads' = midpUploads + 1
  /\ accFile' = NoFile
  /\ accData' = NULL
  /\ comparisonResult' = NULL
  /\ UNCHANGED <<midpFile, midpData, midpIsLoading, compareTimers>>
  /\ UNCHANGED notMidpVars

NextRace ==
  \/ RaceMidpFileLoaded
  \/ RaceAccFileLoaded
  \/ RaceMidpFileRejected
  \/ RaceAccFileRejected
  \/ handleCompare
  \/ CompareTimeout

NextText == CleanTextCall

NextMidp ==
  \/ MidpFileLoaded
  \/ AccFileLoaded
  \/ MidpFileRejected
  \/ AccFileRejected
  \/ handleCompare
  \/ CompareTimeout

\* ------------------------------------------------------------------------
\* QA/QC audit: vocabulary and file name check (QaqcPage.handleAnalysis)
\* ------------------------------------------------------------------------

Undefined == [t |-> "undefined", s |-> <<>>, n |-> 0]

Range(seq) == {seq[i] : i \in DOMAIN seq}

\* The separators of the split: /[\s,;|]+/
IsSeparator(c) == IsJsWhitespace(c) \/ c \in {44, 59, 124}

\* sourceText.split(/[\s,;|]+/)
RECURSIVE SplitSeparators(_)
SplitSeparators(s) ==
  IF \A k \in DOMAIN s : ~IsSeparator(s[k]) THEN <<s>>
  ELSE LET i == CHOOSE k \in DOMAIN s :
                  IsSeparator(s[k]) /\ \A m \in 1..(k - 1) : ~IsSeparator(s[m])
           rest == {k \in (i + 1)..Len(s) : ~IsSeparator(s[k])}
           j == IF rest = {} THEN Len(s) + 1
                ELSE CHOOSE k \in rest : \A m \in rest : k <= m
       IN  <<SubSeq(s, 1, i - 1)>> \o SplitSeparators(SubSeq(s, j, Len(s)))

IsBracket(c) == c \in {40, 41, 91, 93, 123, 125}
NotBracket(c) == ~IsBracket(c)

CleanTokenKeepCase(w) == SelectSeq(Trim(w), NotBracket)

\* w.trim().replace(/[()[\]{}]/g, '').toUpperCase()
CleanToken(w) == ToUpperCase(SelectSeq(Trim(w), NotBracket))

\* What one word of the split adds to pdfTokens.
TokensOfWord(w) ==
  LET clean == CleanToken(w)
  IN  IF Len(clean) > 1
      THEN {clean} \cup
           (IF 45 \in Range(clean)
            THEN {sub \in Range(SplitChar(clean, 45)) : Len(sub) > 1}
            ELSE {})
      ELSE {}

PdfTokens(sourceText) ==
  UNION {TokensOfWord(w) : w \in Range(SplitSeparators(sourceText))}

NoHeader == <<-1>>

\* headers.find(test)
FindHeader(headers, accepted) ==
  IF \E i \in DOMAIN headers : headers[i] \in accepted
  THEN headers[CHOOSE i \in DOMAIN headers :
                 /\ headers[i] \in accepted
                 /\ \A j \in 1..(i - 1) : headers[j] \notin accepted]
  ELSE NoHeader

HeadersOf(excelData) ==
  IF excelData = <<>> THEN <<>> ELSE excelData[1].headers

FileNameColumns ==
  {S(<<"f","i","l","e"," ","n","a","m","e">>),
   S(<<"f","i","l","e","n","a","m","e">>),
   S(<<"m","o","d","e","l"," ","n","a","m","e">>)}

IsIdHeader(h) == ToLowerCase(h) \in FileNameColumns
IsFileNameHeader(h) == Trim(ToLowerCase(h)) \in FileNameColumns

\* createRowRecord(row, header)
createRowRecord(headers, row, header) ==
  LET idH == FindHeader(headers, {x \in Range(headers) : IsIdHeader(x)})
  IN  [k \in (IF idH = NoHeader THEN {} ELSE {idH}) \cup {header} |-> row.cells[k]]

\* valWithoutExt: originalVal.replace(/\.[^/.]+$/, "")
StripExtension(val) ==
  LET dots == {k \in DOMAIN val : val[k] = 46}
      lastDot == CHOOSE k \in dots : \A m \in dots : m <= k
  IN  IF dots # {} /\ lastDot < Len(val)
         /\ \A k \in (lastDot + 1)..Len(val) : val[k] # 47
      THEN SubSeq(val, 1, lastDot - 1)
      ELSE val

FileNameSegments(valWithoutExt) ==
  IF 45 \in Range(valWithoutExt) THEN SplitChar(valWithoutExt, 45)
  ELSE IF 95 \in Range(valWithoutExt) THEN SplitChar(valWithoutExt, 95)
  ELSE <<valWithoutExt>>

\* /^\d{6}$/.test(last)
IsSixDigits(last) == Len(last) = 6 /\ \A k \in DOMAIN last : last[k] \in 48..57

FileNameVerdictKeepingValue(pdfTokens, headers, row, h, originalVal) ==
  LET segments == FileNameSegments(StripExtension(originalVal))
      last == segments[Len(segments)]
      is6 == IsSixDigits(last)
      invalidSegs == SelectSeq(SubSeq(segments, 1, Len(segments) - 1),
                               LAMBDA s : ToUpperCase(s) \notin pdfTokens)
      ok == is6 /\ invalidSegs = <<>>
  IN  [originalRecord |-> createRowRecord(headers, row, h),
       status |-> IF ok THEN "Valid" ELSE "Invalid",
       reasoning |->
         IF ok THEN [text |-> "Valid: Matches all project naming rules.",
                     sequenceSegment |-> <<>>, wrongSegments |-> <<>>]
         ELSE [text |-> "Invalid: ",
               sequenceSegment |-> IF is6 THEN <<>> ELSE <<last>>,
               wrongSegments |-> invalidSegs],
       invalidValue |-> Str(originalVal)]

\* The verdict pushed for one row whose file name is originalVal.
FileNameVerdict(pdfTokens, headers, row, h, originalVal) ==
  LET segments == FileNameSegments(StripExtension(originalVal))
      last == segments[Len(segments)]
      is6 == IsSixDigits(last)
      invalidSegs == SelectSeq(SubSeq(segments, 1, Len(segments) - 1),
                               LAMBDA s : ToUpperCase(s) \notin pdfTokens)
      ok == is6 /\ invalidSegs = <<>>
  IN  [originalRecord |-> createRowRecord(headers, row, h),
       status |-> IF ok THEN "Valid" ELSE "Invalid",
       reasoning |->
         IF ok THEN [text |-> "Valid: Matches all project naming rules.",
                     sequenceSegment |-> <<>>, wrongSegments |-> <<>>]
         ELSE [text |-> "Invalid: ",
               sequenceSegment |-> IF is6 THEN <<>> ELSE <<last>>,
               wrongSegments |-> invalidSegs],
       invalidValue |-> IF ok THEN Undefined ELSE Str(originalVal)]

\* "1. File Name": the reduce over excelData, for the column h.
RECURSIVE FileNameCheck(_, _, _, _)
FileNameCheck(pdfTokens, headers, excelData, h) ==
  IF excelData = <<>> THEN <<>>
  ELSE LET n == Len(excelData)
           acc == FileNameCheck(pdfTokens, headers, SubSeq(excelData, 1, n - 1), h)
           row == excelData[n]
           originalVal == Trim(JsString(OrEmpty(row.cells[h])))
       IN  IF originalVal = <<>> THEN acc
           ELSE Append(acc, FileNameVerdict(pdfTokens, headers, row, h, originalVal))

\* Longest source text handed to the tokenizer on its own.
MaxTokenTextLen == 4

TokenAlphabet == {Cp["A"], Cp["b"], Cp["-"], Cp[" "], Cp[","], Cp["("]}

\* "ARCH-L01-001 Rev A"
ExampleRules ==
  S(<<"A","R","C","H","-","L","0","1","-","0","0","1"," ","R","e","v"," ","A">>)

TokenizerTexts == StringsUpTo(TokenAlphabet, MaxTokenTextLen) \cup {ExampleRules}

InitTok ==
  /\ tokText = NULL
  /\ tokTokens = {}

\* The vocabulary step of one audit run (pdfTokens), for any source text.
BuildVocabulary ==
  \E sourceText \in TokenizerTexts \ {<<>>} :
    /\ tokText = NULL
    /\ tokText' = Str(sourceText)
    /\ tokTokens' = PdfTokens(sourceText)
    /\ UNCHANGED notTokVars

NextTok == BuildVocabulary

H_FileName == S(<<"F","i","l","e"," ","N","a","m","e">>)

\* A sheet row with the one column File Name.
FileNameRow(cell) ==
  [headers |-> <<H_FileName>>, cells |-> [k \in {H_FileName} |-> cell]]

\* Segments file names are put together from.
NameSegments ==
  {S(<<"A","R","C","H">>), S(<<"L","0","1">>), S(<<"a","r","c","h">>),
   S(<<"X","Y","Z">>), S(<<"0","0","0","1","2","3">>), S(<<"9","9">>)}

\* Most segments in a generated file name.
MaxNameSegments == 3

RECURSIVE Join(_, _)
Join(segs, delim) ==
  IF Len(segs) = 1 THEN segs[1]
  ELSE Join(SubSeq(segs, 1, Len(segs) - 1), delim) \o <<delim>> \o segs[Len(segs)]

GeneratedNames ==
  {Join(segs, delim) \o ext :
     segs \in SeqsUpTo(NameSegments, MaxNameSegments) \ {<<>>},
     delim \in {45, 95},
     ext \in {<<>>, S(<<".","p","d","f">>)}}

\* Names whose dots, mixed delimiters or digit counts are not the usual ones.
SpecialNames ==
  {S(<<"X","Y","Z","-","9","9",".","p","d","f">>),
   S(<<"A","R","C","H","-","L","0","1",".","5","-","0","0","0","1","2","3">>),
   S(<<"A","R","C","H","_","L","0","1","-","0","0","0","1","2","3">>),
   S(<<"A","R","C","H","-","0","0","0","1","2","3","4">>),
   S(<<"A","R","C","H","-","-","0","0","0","1","2","3">>),
   S(<<" ","0","0","0","1","2","3",".","d","w","g"," ">>),
   S(<<".","p","d","f">>)}

FileNameCells ==
  {Str(name) : name \in GeneratedNames \cup SpecialNames}

\* Cells as sheet_to_json gives them for blank, numeric and boolean cells.
OddCells == {Str(<<>>), Str(S(<<" ">>)), Num(0), Num(123456), Bool(FALSE), Bool(TRUE)}

FileNameSheets ==
  {<<FileNameRow(cell)>> : cell \in FileNameCells \cup OddCells}
    \cup {<<FileNameRow(a), FileNameRow(b), FileNameRow(c)>> :
            a \in OddCells, b \in OddCells,
            c \in {Str(S(<<"X","Y","Z","-","9","9",".","p","d","f">>))}}

\* Source texts the file names are checked against.
RuleTexts ==
  {ExampleRules,
   S(<<"[","a","r","c","h","]",",","X","Y","Z","|","0","0","0","1","2","3">>)}

InitFn ==
  /\ fnText = NULL
  /\ fnTokens = {}
  /\ fnSheet = NULL
  /\ fnResult = NULL

\* The vocabulary step of an audit run over the project rules.
TokenizeRules ==
  \E sourceText \in RuleTexts :
    /\ fnText = NULL
    /\ fnText' = Str(sourceText)
    /\ fnTokens' = PdfTokens(sourceText)
    /\ fnSheet' = NULL
    /\ fnResult' = NULL
    /\ UNCHANGED notFnVars

\* The "1. File Name" step of that run, for the sheet loaded.
CheckFileNames ==
  \E excelData \in FileNameSheets :
    LET headers == HeadersOf(excelData)
        h == FindHeader(headers, {x \in Range(headers) : IsFileNameHeader(x)})
    IN  /\ fnText # NULL
        /\ fnSheet = NULL
        /\ h # NoHeader
        /\ fnSheet' = [rows |-> excelData]
        /\ fnResult' = [items |-> FileNameCheck(fnTokens, headers, excelData, h)]
        /\ UNCHANGED <<fnText, fnTokens>>
        /\ UNCHANGED notFnVars

NextFn ==
  \/ TokenizeRules
  \/ CheckFileNames

\* ------------------------------------------------------------------------
\* QA/QC audit: the page (QaqcPage)
\* ------------------------------------------------------------------------

CheckKeys ==
  {"fileName", "projectUnits", "surveyPoint", "projectBasePoint",
   "rvtLinkPinned", "revitLinksPath", "importedCad", "levelsGridsPinned",
   "categoryWorksetName", "startingViewName", "navisworksViewName",
   "viewsNotInSheets"}

\* useState of selectedChecks and of results
AllSelected == [k \in CheckKeys |-> TRUE]
NoResults == [k \in CheckKeys |-> NULL]

\* s.includes(sub)
Includes(s, sub) ==
  \E i \in 1..(Len(s) - Len(sub) + 1) : SubSeq(s, i, i + Len(sub) - 1) = sub

\* s.split(k).length - 1
RECURSIVE Occurrences(_, _)
Occurrences(s, k) ==
  IF ~Includes(s, k) THEN 0
  ELSE LET i == CHOOSE j \in 1..(Len(s) - Len(k) + 1) :
                  /\ SubSeq(s, j, j + Len(k) - 1) = k
                  /\ \A m \in 1..(j - 1) : SubSeq(s, m, m + Len(k) - 1) # k
       IN  1 + Occurrences(SubSeq(s, i + Len(k), Len(s)), k)

MetricWords ==
  <<S(<<"m","e","t","r","i","c">>),
    S(<<"m","i","l","l","i","m","e","t","e","r">>),
    S(<<"m","e","t","e","r">>)>>

ImperialWords ==
  <<S(<<"i","m","p","e","r","i","a","l">>), S(<<"i","n","c","h">>),
    S(<<"f","e","e","t">>)>>

RECURSIVE KeywordScore(_, _)
KeywordScore(words, sourceText) ==
  IF words = <<>> THEN 0
  ELSE KeywordScore(SubSeq(words, 1, Len(words) - 1), sourceText)
         + Occurrences(ToLowerCase(sourceText), words[Len(words)])

StandardImperialOnTie(sourceText) ==
  IF KeywordScore(MetricWords, sourceText) > KeywordScore(ImperialWords, sourceText)
  THEN S(<<"M","e","t","r","i","c">>)
  ELSE S(<<"I","m","p","e","r","i","a","l">>)

ProjectUnitStandard(sourceText) ==
  IF KeywordScore(MetricWords, sourceText) >= KeywordScore(ImperialWords, sourceText)
  THEN S(<<"M","e","t","r","i","c">>)
  ELSE S(<<"I","m","p","e","r","i","a","l">>)

\* v ?? ''
NullishEmpty(v) == IF v.t \in {"null", "undefined"} THEN Str(<<>>) ELSE v

\* String(v || '').trim() is not empty
FilledOr(v) == Trim(JsString(OrEmpty(v))) # <<>>

FilledTruthy(v) == Trim(JsString(OrEmpty(v))) # <<>>

\* String(v ?? '').trim() is not empty
FilledNullish(v) == Trim(JsString(NullishEmpty(v))) # <<>>

\* One ValidationResultItem of the map-style checks.
Item(record, ok, valid, invalid, value) ==
  [originalRecord |-> record,
   status |-> IF ok THEN "Valid" ELSE "Invalid",
   reasoning |-> IF ok THEN [text |-> valid, value |-> <<>>]
                 ELSE [text |-> invalid, value |-> value]]

FilledFirstColumnRows(excelData, h) ==
  SelectSeq(excelData, LAMBDA r : FilledOr(r.cells[r.headers[1]]))

\* excelData.filter(r => String(r[h] || '').trim())
FilledOrRows(excelData, h) ==
  SelectSeq(excelData, LAMBDA r : FilledOr(r.cells[h]))

\* excelData.filter(r => String(r[h] ?? '').trim() !== '')
FilledNullishRows(excelData, h) ==
  SelectSeq(excelData, LAMBDA r : FilledNullish(r.cells[h]))

\* String(r[h]) of the rows
CellTexts(excelData, h) ==
  {JsString(excelData[i].cells[h]) : i \in DOMAIN excelData}

\* rows.map(r => item for String(r[h])); accepted holds the texts that
\* pass the check's test.
CheckedRows(headers, rows, h, accepted, valid, invalid) ==
  [i \in DOMAIN rows |->
     Item(createRowRecord(headers, rows[i], h),
          JsString(rows[i].cells[h]) \in accepted,
          valid, invalid, <<JsString(rows[i].cells[h])>>)]

\* "2. Units"
UnitsCheck(sourceText, headers, excelData, h) ==
  LET standard == ProjectUnitStandard(sourceText)
      rows == FilledOrRows(excelData, h)
      details ==
        [i \in DOMAIN rows |->
           LET val == Trim(JsString(OrEmpty(rows[i].cells[h])))
           IN  Item(createRowRecord(headers, rows[i], h),
                    Includes(ToLowerCase(val), ToLowerCase(standard)),
                    "Valid: Matches the document's standard.",
                    "Item is wrong: Expected standard but found value.",
                    <<standard, val>>)]
  IN  [summary |-> [standardFromDocument |-> standard, totalCount |-> Len(details)],
       details |-> details]

\* "3. Points": checkPoints
PointsCheck(sourceText, headers, excelData, h) ==
  CheckedRows(headers, FilledOrRows(excelData, h), h,
              {val \in CellTexts(excelData, h) : Includes(sourceText, val)},
              "Valid: Coordinates found in source document.",
              "Item not found: Coordinates were not identified in the PDF rules.")

\* "4. RVT Link"
RvtLinkCheck(headers, excelData, h) ==
  IF \A i \in DOMAIN excelData : ~FilledNullish(excelData[i].cells[h])
  THEN <<[originalRecord |-> [k \in {S(<<"C","h","e","c","k">>)} |->
                                Str(S(<<"R","V","T"," ","L","i","n","k">>))],
          status |-> "Valid",
          reasoning |-> [text |-> "Valid: There is no link in the Model.",
                         value |-> <<>>]]>>
  ELSE CheckedRows(headers, FilledNullishRows(excelData, h), h,
                   {val \in CellTexts(excelData, h) :
                      ToLowerCase(val) = S(<<"t","r","u","e">>)},
                   "Valid: The linked model is correctly pinned.",
                   "Item is wrong: Linked models must be pinned to prevent accidental movement.")

\* "5. Navisworks"
NavisworksCheck(headers, excelData, h) ==
  IF \A i \in DOMAIN excelData : ~FilledNullish(excelData[i].cells[h])
  THEN <<[originalRecord |-> [k \in {S(<<"C","h","e","c","k">>)} |->
                                Str(S(<<"N","a","v","i","s","w","o","r","k","s",
                                        " ","V","i","e","w">>))],
          status |-> "Invalid",
          reasoning |-> [text |-> "Item not found: No Navisworks view found in the Model.",
                         value |-> <<>>]]>>
  ELSE CheckedRows(headers, FilledNullishRows(excelData, h), h,
                   {val \in CellTexts(excelData, h) :
                      Includes(ToLowerCase(val),
                               S(<<"n","a","v","i","s","w","o","r","k","s">>))},
                   "Valid: View name includes the mandatory keyword.",
                   "Item is wrong: View name must include 'Navisworks' keyword.")

\* "6. Starting View" and "10. Workset Name"
NameInRulesCheck(sourceText, headers, excelData, h, valid, invalid) ==
  CheckedRows(headers, FilledOrRows(excelData, h), h,
              {val \in CellTexts(excelData, h) :
                 Includes(ToLowerCase(sourceText), ToLowerCase(val))},
              valid, invalid)

\* One row of "7. Levels/Grids" whose value holds a '/'.
LevelGridEntry(h, val) ==
  LET parts == SplitChar(val, 47)
      cat == ToLowerCase(Trim(parts[1]))
      pin == ToLowerCase(Trim(parts[2]))
      isPinned == pin \in {S(<<"t","r","u","e">>), S(<<"y","e","s">>)}
  IN  [cat |-> cat,
       res |-> [originalRecord |-> [k \in {h} |-> Str(val)],
                status |-> IF isPinned THEN "Valid" ELSE "Invalid",
                reasoning |-> [text |-> IF isPinned THEN "Valid: is pinned."
                                        ELSE "Item is wrong: must be pinned.",
                               value |-> <<cat>>]]]

\* "7. Levels/Grids"
LevelsGridsCheck(excelData, h) ==
  LET vals == [i \in DOMAIN excelData |->
                 Trim(JsString(OrEmpty(excelData[i].cells[h])))]
      slashed == SelectSeq(vals, LAMBDA val : 47 \in Range(val))
      entries == [i \in DOMAIN slashed |-> LevelGridEntry(h, slashed[i])]
      isLevel(e) == Includes(e.cat, S(<<"l","e","v","e","l">>))
      isGrid(e) == ~isLevel(e) /\ Includes(e.cat, S(<<"g","r","i","d">>))
      levels == SelectSeq(entries, isLevel)
      grids == SelectSeq(entries, isGrid)
  IN  [levels |-> [i \in DOMAIN levels |-> levels[i].res],
       grids |-> [i \in DOMAIN grids |-> grids[i].res]]

\* "8. Revit Links Path"
LinksPathCheck(headers, excelData, h) ==
  CheckedRows(headers, FilledNullishRows(excelData, h), h,
              {path \in CellTexts(excelData, h) :
                 Includes(path, S(<<"A","C","C","D","o","c","s">>))},
              "Valid: Path utilizes ACCDocs cloud storage.",
              "Item is wrong: Path must use ACCDocs.")

\* "9. Imported CAD" and "11. Unplaced Views"
FlagRowsCheck(headers, excelData, h, invalid) ==
  LET rows == FilledNullishRows(excelData, h)
  IN  [i \in DOMAIN rows |->
         [originalRecord |-> createRowRecord(headers, rows[i], h),
          status |-> "Invalid",
          reasoning |-> [text |-> invalid, value |-> <<>>]]]

ProjectUnitsColumn ==
    S(<<"p","r","o","j","e","c","t"," ","u","n","i","t","s">>)
SurveyPointColumn ==
    S(<<"s","u","r","v","e","y"," ","p","o","i","n","t">>)
SpColumn ==
    S(<<"s","p">>)
ProjectBasePointColumn ==
    S(<<"p","r","o","j","e","c","t"," ","b","a","s","e"," ","p","o","i","n",
        "t">>)
PbpColumn ==
    S(<<"p","b","p">>)
RvtLinkColumn ==
    S(<<"r","v","t"," ","l","i","n","k"," ","i","s"," ","p","i","n","n","e",
        "d">>)
NavisworksColumn ==
    S(<<"n","a","v","i","s","w","o","r","k","s"," ","v","i","e","w"," ","n",
        "a","m","e">>)
StartingViewWords ==
    S(<<"s","t","a","r","t","i","n","g"," ","v","i","e","w">>)
LevelsGridsColumn ==
    S(<<"l","e","v","e","l","s","-","g","r","i","d","s"," ","/"," ","e","l",
        "e","m","e","n","t"," ","i","s"," ","p","i","n","n","e","d">>)
LinksPathColumn ==
    S(<<"r","e","v","i","t"," ","l","i","n","k","s"," ","p","a","t","h">>)
ImportedCadColumn ==
    S(<<"i","m","p","o","r","t","e","d"," ","c","a","d">>)
WorksetNameWords ==
    S(<<"w","o","r","k","s","e","t"," ","n","a","m","e">>)
ViewsNotInSheetsColumn ==
    S(<<"v","i","e","w","s"," ","n","o","t"," ","i","n"," ","s","h","e","e",
        "t","s">>)
ViewsNotInSheetColumn ==
    S(<<"v","i","e","w","s"," ","n","o","t"," ","i","n"," ","s","h","e","e",
        "t">>)

\* headers.find(...) of the check named key
HeaderFor(key, headers) ==
  LET is(names) == {h \in Range(headers) : Trim(ToLowerCase(h)) \in names}
      has(words) == {h \in Range(headers) : Includes(Trim(ToLowerCase(h)), words)}
  IN  CASE key = "fileName" ->
             FindHeader(headers, {h \in Range(headers) : IsFileNameHeader(h)})
        [] key = "projectUnits" -> FindHeader(headers, is({ProjectUnitsColumn}))
        [] key = "surveyPoint" ->
             FindHeader(headers, is({SurveyPointColumn, SpColumn}))
        [] key = "projectBasePoint" ->
             FindHeader(headers, is({ProjectBasePointColumn, PbpColumn}))
        [] key = "rvtLinkPinned" -> FindHeader(headers, is({RvtLinkColumn}))
        [] key = "navisworksViewName" -> FindHeader(headers, is({NavisworksColumn}))
        [] key = "startingViewName" -> FindHeader(headers, has(StartingViewWords))
        [] key = "levelsGridsPinned" -> FindHeader(headers, is({LevelsGridsColumn}))
        [] key = "revitLinksPath" -> FindHeader(headers, is({LinksPathColumn}))
        [] key = "importedCad" -> FindHeader(headers, is({ImportedCadColumn}))
        [] key = "categoryWorksetName" -> FindHeader(headers, has(WorksetNameWords))
        [] key = "viewsNotInSheets" ->
             FindHeader(headers, is({ViewsNotInSheetsColumn, ViewsNotInSheetColumn}))

\* What the check named key assigns to newResults[key] for its column h.
CheckResult(key, sourceText, headers, excelData, h) ==
  CASE key = "fileName" ->
         [items |-> FileNameCheck(PdfTokens(sourceText), headers, excelData, h)]
    [] key = "projectUnits" -> UnitsCheck(sourceText, headers, excelData, h)
    [] key \in {"surveyPoint", "projectBasePoint"} ->
         [items |-> PointsCheck(sourceText, headers, excelData, h)]
    [] key = "rvtLinkPinned" -> [items |-> RvtLinkCheck(headers, excelData, h)]
    [] key = "navisworksViewName" ->
         [items |-> NavisworksCheck(headers, excelData, h)]
    [] key = "startingViewName" ->
         [items |-> NameInRulesCheck(sourceText, headers, excelData, h,
                      "Valid: Starting view name found in project standard.",
                      "Item not found: View is not defined in the project standard.")]
    [] key = "levelsGridsPinned" -> LevelsGridsCheck(excelData, h)
    [] key = "revitLinksPath" -> [items |-> LinksPathCheck(headers, excelData, h)]
    [] key = "importedCad" ->
         [items |-> FlagRowsCheck(headers, excelData, h,
                      "Item is wrong: Imported CAD file found. CAD must be linked.")]
    [] key = "categoryWorksetName" ->
         [items |-> NameInRulesCheck(sourceText, headers, excelData, h,
                      "Valid: Workset name found in rules.",
                      "Item not found: Workset not authorized in rules.")]
    [] key = "viewsNotInSheets" ->
         [items |-> FlagRowsCheck(headers, excelData, h,
                      "Item is wrong: This view is not placed on any drawing sheet.")]

\* ------------------------------------------------------------------------
\* QA/QC audit: page state and handlers
\* ------------------------------------------------------------------------

\* A row of sheet_to_json(worksheet, {defval: ""}): every header has a cell.
SheetRow(headers, values) ==
  [headers |-> headers,
   cells |-> [k \in Range(headers) |->
                values[CHOOSE i \in DOMAIN headers : headers[i] = k]]]

SheetAHeaders ==
  <<S(<<"F","i","l","e"," ","N","a","m","e">>),
    S(<<"P","r","o","j","e","c","t"," ","U","n","i","t","s">>),
    S(<<"R","V","T"," ","L","i","n","k"," ","i","s"," ","P","i","n","n","e",
        "d">>)>>

SheetBHeaders ==
  <<S(<<"S","P">>),
    S(<<"ZWSP","I","m","p","o","r","t","e","d"," ","C","A","D">>),
    S(<<"W","o","r","k","s","e","t"," ","N","a","m","e">>),
    S(<<"L","e","v","e","l","s","-","G","r","i","d","s"," ","/"," ","E","l",
        "e","m","e","n","t"," ","i","s"," ","P","i","n","n","e","d">>),
    S(<<"R","e","v","i","t"," ","L","i","n","k","s"," ","P","a","t","h">>)>>

\* A sheet with the file name, units and RVT link columns.
SheetA ==
  <<SheetRow(SheetAHeaders,
      <<Str(S(<<"A","R","C","H","-","L","0","1","-","0","0","0","1","2","3",".",
            "r","v","t">>)),
        Str(S(<<"M","e","t","r","i","c"," ","(","m","m",")">>)),
        Bool(TRUE)>>),
    SheetRow(SheetAHeaders,
      <<Str(S(<<"X","Y","Z","-","9","9",".","r","v","t">>)),
        Str(S(<<"I","m","p","e","r","i","a","l">>)),
        Str(<<>>)>>)>>

\* A sheet with columns of five other checks.
SheetB ==
  <<SheetRow(SheetBHeaders,
      <<Str(S(<<"N","1","0","0">>)),
        Num(0),
        Str(S(<<"S","h","a","r","e","d">>)),
        Str(S(<<"L","e","v","e","l"," ","/"," ","Y","e","s">>)),
        Str(S(<<"C",":","/","A","C","C","D","o","c","s","/","a">>))>>),
    SheetRow(SheetBHeaders,
      <<Str(<<>>),
        Str(S(<<"s","i","t","e",".","d","w","g">>)),
        Str(<<>>),
        Str(S(<<"G","r","i","d"," ","/"," ","f","a","l","s","e">>)),
        Str(S(<<"D",":","/","b">>))>>)>>

\* A sheet without rows: sheet_to_json gives [].
EmptySheet == <<>>

\* A file XLSX.read throws on.
Unreadable == <<[headers |-> <<>>, cells |-> <<>>, unreadable |-> TRUE]>>

\* Files the user picks: two sheets with rows, one without, one unreadable.
QaqcSheets == {SheetA, SheetB, EmptySheet, Unreadable}

\* Texts an analysis of the project documents publishes.
QaqcTexts ==
  {S(<<"A","R","C","H","-","L","0","1","-","0","0","1"," ","R","e","v"," ",
       "A"," ","m","e","t","r","i","c"," ","N","1","0","0">>),
   S(<<"X","Y","Z",","," ","0","0","0","1","2","3"," ","|"," ","f","e","e",
       "t"," ","[","i","n","c","h","]">>)}

\* The checks whose boxes the user toggles.
ToggledChecks == {"fileName", "importedCad"}

\* cleanedRow of reader.onload: keys and string cells through cleanText
CleanedRow(row) ==
  LET key(h) == cleanText(Str(h)).s
  IN  [headers |-> [i \in DOMAIN row.headers |-> key(row.headers[i])],
       cells |-> [k \in {key(h) : h \in Range(row.headers)} |->
                    cleanText(row.cells[CHOOSE h \in Range(row.headers) :
                                          key(h) = k])]]

CleanedSheet(json) == [i \in DOMAIN json |-> CleanedRow(json[i])]

\* What reader.onload stores for each readable file.
SheetReads ==
  {[json |-> json, rows |-> CleanedSheet(json)] :
     json \in QaqcSheets \ {Unreadable}}

LoadedSheets == {read.rows : read \in SheetReads}

\* The texts as the analysis publishes them.
PublishedTexts == {cleanText(Str(combinedText)) : combinedText \in QaqcTexts}

\* What the checks of one run assign to newResults when selected: for each
\* key whether its column is found and, if so, the value assigned.
Assignments(sourceText, excelData) ==
  LET headers == HeadersOf(excelData)
  IN  [key \in CheckKeys |->
         IF HeaderFor(key, headers) # NoHeader
         THEN [found |-> TRUE,
               value |-> CheckResult(key, sourceText, headers, excelData,
                                     HeaderFor(key, headers))]
         ELSE [found |-> FALSE, value |-> NULL]]

\* The assignments for every text and sheet of the model.
AuditRuns ==
  {[sourceText |-> text.s, excelData |-> rows,
    assigned |-> Assignments(text.s, rows)] :
     text \in PublishedTexts, rows \in LoadedSheets}

\* newResults of handleAnalysis: a copy of results in which every selected
\* check whose column is found has assigned its key.
RunChecks(sourceText, excelData, selectedChecks, results) ==
  LET run == CHOOSE r \in AuditRuns :
               r.sourceText = sourceText /\ r.excelData = excelData
  IN  [key \in CheckKeys |->
         IF selectedChecks[key] /\ run.assigned[key].found
         THEN run.assigned[key].value
         ELSE results[key]]

InitQaqc ==
  /\ qaqcPdfText = NULL
  /\ qaqcFile = NoFile
  /\ qaqcExcelData = NULL
  /\ qaqcReads = {}
  /\ qaqcSelectedChecks = AllSelected
  /\ qaqcResults = NoResults
  /\ qaqcError = NULL
  /\ qaqcAudited = FALSE

\* AnalysisPage.handleAnalyze publishes the text of the documents.
PdfTextPublished ==
  \E text \in PublishedTexts :
    /\ qaqcPdfText' = text
    /\ UNCHANGED <<qaqcFile, qaqcExcelData, qaqcReads, qaqcSelectedChecks,
                   qaqcResults, qaqcError>>
    /\ qaqcAudited' = FALSE
    /\ UNCHANGED notQaqcVars

\* handleFileChange with a spreadsheet: the file shows, its read starts.
QaqcFileChosen ==
  \E json \in QaqcSheets :
    /\ qaqcPdfText # NULL
    /\ qaqcFile' = TRUE
    /\ qaqcError' = NULL
    /\ qaqcReads' = qaqcReads \cup {json}
    /\ UNCHANGED <<qaqcPdfText, qaqcExcelData, qaqcSelectedChecks, qaqcResults>>
    /\ qaqcAudited' = FALSE
    /\ UNCHANGED notQaqcVars

\* handleFileChange with a file of another type.
QaqcFileRejected ==
  /\ qaqcPdfText # NULL
  /\ qaqcError' = Str(S(<<"P","l","e","a","s","e">>))
  /\ UNCHANGED <<qaqcPdfText, qaqcFile, qaqcExcelData, qaqcReads,
                 qaqcSelectedChecks, qaqcResults>>
  /\ qaqcAudited' = FALSE
  /\ UNCHANGED notQaqcVars

\* handleFileChange(null): the picker was closed without a file.
QaqcFileCleared ==
  /\ qaqcPdfText # NULL
  /\ qaqcFile' = NoFile
  /\ qaqcExcelData' = NULL
  /\ UNCHANGED <<qaqcPdfText, qaqcReads, qaqcSelectedChecks, qaqcResults,
                 qaqcError>>
  /\ qaqcAudited' = FALSE
  /\ UNCHANGED notQaqcVars

\* reader.onload: the rows of a sheet read become excelData.
QaqcSheetLoaded ==
  \E read \in SheetReads :
    /\ read.json \in qaqcReads
    /\ qaqcReads' = qaqcReads \ {read.json}
    /\ qaqcExcelData' = [rows |-> read.rows]
    /\ UNCHANGED <<qaqcPdfText, qaqcFile, qaqcSelectedChecks, qaqcResults,
                   qaqcError>>
    /\ qaqcAudited' = FALSE
    /\ UNCHANGED notQaqcVars

\* reader.onload whose XLSX.read throws
QaqcSheetUnreadable ==
  /\ Unreadable \in qaqcReads
  /\ qaqcReads' = qaqcReads \ {Unreadable}
  /\ qaqcError' = Str(S(<<"E","r","r","o","r">>))
  /\ UNCHANGED <<qaqcPdfText, qaqcFile, qaqcExcelData, qaqcSelectedChecks,
                 qaqcResults>>
  /\ qaqcAudited' = FALSE
  /\ UNCHANGED notQaqcVars

\* onChange of one check box
ToggleCheck ==
  \E key \in ToggledChecks :
    /\ qaqcPdfText # NULL
    /\ qaqcSelectedChecks' =
         [qaqcSelectedChecks EXCEPT ![key] = ~qaqcSelectedChecks[key]]
    /\ UNCHANGED <<qaqcPdfText, qaqcFile, qaqcExcelData, qaqcReads,
                   qaqcResults, qaqcError>>
    /\ qaqcAudited' = FALSE
    /\ UNCHANGED notQaqcVars

\* handleAnalysis, from the button "Run QA/QC Audit"
handleAnalysis ==
  /\ qaqcPdfText # NULL /\ qaqcPdfText.s # <<>>
  /\ qaqcFile
  /\ qaqcExcelData # NULL
  /\ qaqcResults' = RunChecks(qaqcPdfText.s, qaqcExcelData.rows,
                              qaqcSelectedChecks, qaqcResults)
  /\ UNCHANGED <<qaqcPdfText, qaqcFile, qaqcExcelData, qaqcReads,
                 qaqcSelectedChecks, qaqcError>>
  /\ qaqcAudited' = TRUE
  /\ UNCHANGED notQaqcVars

NextQaqc ==
  \/ PdfTextPublished
  \/ QaqcFileChosen
  \/ QaqcFileRejected
  \/ QaqcFileCleared
  \/ QaqcSheetLoaded
  \/ QaqcSheetUnreadable
  \/ ToggleCheck
  \/ handleAnalysis

\* ------------------------------------------------------------------------
\* QaqcPage: which file is shown and which file's rows are audited
\* ------------------------------------------------------------------------

\* Files the user picks: two sheets with rows and an unreadable one.
SelSheets == {SheetA, SheetB, Unreadable}

InitSel ==
  /\ selPdfText = NULL
  /\ selFile = NULL
  /\ selExcelData = NULL
  /\ selReads = {}
  /\ selResults = NoResults
  /\ selError = NULL
  /\ selAudited = NULL

\* AnalysisPage.handleAnalyze publishes the text of the documents.
SelTextPublished ==
  \E text \in PublishedTexts :
    /\ selPdfText' = text
    /\ UNCHANGED <<selFile, selExcelData, selReads, selResults, selError,
                   selAudited>>
    /\ UNCHANGED notSelVars

\* handleFileChange with a spreadsheet: the file shows, its read starts.
SelFileChosen ==
  \E json \in SelSheets :
    /\ selPdfText # NULL
    /\ selFile' = [json |-> json]
    /\ selError' = NULL
    /\ selReads' = selReads \cup {json}
    /\ UNCHANGED <<selPdfText, selExcelData, selResults, selAudited>>
    /\ UNCHANGED notSelVars

\* handleFileChange with a file of another type.
SelFileRejected ==
  /\ selPdfText # NULL
  /\ selError' = Str(S(<<"P","l","e","a","s","e">>))
  /\ UNCHANGED <<selPdfText, selFile, selExcelData, selReads, selResults,
                 selAudited>>
  /\ UNCHANGED notSelVars

\* handleFileChange(null): the picker was closed without a file.
SelFileCleared ==
  /\ selPdfText # NULL
  /\ selFile' = NULL
  /\ selExcelData' = NULL
  /\ UNCHANGED <<selPdfText, selReads, selResults, selError, selAudited>>
  /\ UNCHANGED notSelVars

\* reader.onload: the rows of a sheet read become excelData.
SelSheetLoaded ==
  \E read \in SheetReads :
    /\ read.json \in selReads
    /\ selReads' = selReads \ {read.json}
    /\ selExcelData' = [rows |-> read.rows]
    /\ UNCHANGED <<selPdfText, selFile, selResults, selError, selAudited>>
    /\ UNCHANGED notSelVars

\* reader.onload whose XLSX.read throws
SelSheetUnreadable ==
  /\ Unreadable \in selReads
  /\ selReads' = selReads \ {Unreadable}
  /\ selError' = Str(S(<<"E","r","r","o","r">>))
  /\ UNCHANGED <<selPdfText, selFile, selExcelData, selResults, selAudited>>
  /\ UNCHANGED notSelVars

\* handleAnalysis, from the button "Run QA/QC Audit", every box ticked as
\* the page is constructed.
SelAnalysis ==
  /\ selPdfText # NULL /\ selPdfText.s # <<>>
  /\ selFile # NULL
  /\ selExcelData # NULL
  /\ selResults' = RunChecks(selPdfText.s, selExcelData.rows, AllSelected,
                             selResults)
  /\ selAudited' = [file |-> selFile, rows |-> selExcelData.rows]
  /\ UNCHANGED <<selPdfText, selFile, selExcelData, selReads, selError>>
  /\ UNCHANGED notSelVars

NextSel ==
  \/ SelTextPublished
  \/ SelFileChosen
  \/ SelFileRejected
  \/ SelFileCleared
  \/ SelSheetLoaded
  \/ SelSheetUnreadable
  \/ SelAnalysis

\* ------------------------------------------------------------------------
\* AnalysisPage (handleFilesSelected, removeFile, handleAnalyze) and the
\* AnalysisProvider
\* ------------------------------------------------------------------------

\* Most files in one selection of the picker.
MaxSelected == 2

\* A file of the picker: text is what the text layer of its pages gives
\* (singleDocumentText), readable whether pdfjsLib opens it.
PickedFile(name, size, pdf, readable, text) ==
  [name |-> S(name), size |-> size, pdf |-> pdf, readable |-> readable,
   text |-> S(text)]

\* Two PDFs with text, a PDF pdfjsLib rejects, a file that is no PDF.
PickedFiles ==
  {PickedFile(<<"a">>, 1, TRUE, TRUE, <<"X","LF","LF">>),
   PickedFile(<<"b">>, 2, TRUE, TRUE, <<"Y"," ","ZWSP","LF","LF">>),
   PickedFile(<<"c">>, 3, TRUE, FALSE, <<>>),
   PickedFile(<<"d">>, 4, FALSE, FALSE, <<>>)}

\* A FileList holds each picked file once.
FileLists ==
  {list \in SeqsUpTo(PickedFiles, MaxSelected) \ {<<>>} :
     \A i, j \in DOMAIN list : i # j => list[i] # list[j]}

InitAn ==
  /\ anFiles = <<>>
  /\ anIsLoading = FALSE
  /\ anError = NULL
  /\ anAnalysisResult = NULL
  /\ anPdfText = NULL
  /\ anDocuments = <<>>
  /\ anPdfImages = NULL
  /\ anPdfFileName = NULL
  /\ anRuns = {}

\* handleFilesSelected(selectedFiles) with a FileList.
handleFilesSelected ==
  \E newFiles \in FileLists :
    LET pdfFiles == SelectSeq(newFiles, LAMBDA file : file.pdf)
        known(newPdf) ==
          \E i \in DOMAIN anFiles :
            anFiles[i].name = newPdf.name /\ anFiles[i].size = newPdf.size
        uniqueNewPdfs == SelectSeq(pdfFiles, LAMBDA newPdf : ~known(newPdf))
    IN  /\ anError' = IF Len(pdfFiles) # Len(newFiles)
                      THEN Str(S(<<"S","o","m","e">>)) ELSE NULL
        /\ IF Len(pdfFiles) = 0
           THEN UNCHANGED <<anFiles, anAnalysisResult, anPdfText, anDocuments,
                            anPdfImages>>
           ELSE /\ anFiles' = anFiles \o uniqueNewPdfs
                /\ anAnalysisResult' = NULL
                /\ anPdfText' = NULL
                /\ anDocuments' = <<>>
                /\ anPdfImages' = NULL
        /\ UNCHANGED <<anIsLoading, anPdfFileName, anRuns>>
        /\ UNCHANGED notAnVars

\* removeFile(indexToRemove), from the button next to a listed file.
removeFile ==
  \E indexToRemove \in DOMAIN anFiles :
    /\ anFiles' = [i \in 1..(Len(anFiles) - 1) |->
                     IF i < indexToRemove THEN anFiles[i] ELSE anFiles[i + 1]]
    /\ UNCHANGED <<anIsLoading, anError, anAnalysisResult, anPdfText,
                   anDocuments, anPdfImages, anPdfFileName, anRuns>>
    /\ UNCHANGED notAnVars

\* handleAnalyze up to its first await, from the button "Analyze".
handleAnalyze ==
  /\ Len(anFiles) # 0 /\ ~anIsLoading
  /\ anIsLoading' = TRUE
  /\ anError' = NULL
  /\ anAnalysisResult' = NULL
  /\ anRuns' = anRuns \cup {[files |-> anFiles]}
  /\ UNCHANGED <<anFiles, anPdfText, anDocuments, anPdfImages, anPdfFileName>>
  /\ UNCHANGED notAnVars

\* newDocuments: name and cleaned text of every file of a run.
NewDocuments(files) ==
  [i \in DOMAIN files |->
     [name |-> files[i].name, text |-> cleanText(Str(files[i].text)).s]]

\* `--- DOCUMENT: ${doc.name} ---\n${doc.text}` joined by two line feeds.
RECURSIVE CombinedText(_)
CombinedText(docs) ==
  IF docs = <<>> THEN <<>>
  ELSE LET doc == docs[Len(docs)]
           block == S(<<"-","-","-"," ","D","O","C","U","M","E","N","T",":"," ">>)
                      \o doc.name \o S(<<" ","-","-","-","LF">>) \o doc.text
       IN  IF Len(docs) = 1 THEN block
           ELSE CombinedText(SubSeq(docs, 1, Len(docs) - 1))
                  \o S(<<"LF","LF">>) \o block

\* The reports joined into analysisResult, each held by the name and the
\* text performLocalAnalysis is given.
AllResults(docs) ==
  [reports |-> [i \in DOMAIN docs |->
                  [fileName |-> docs[i].name, text |-> docs[i].text]]]

\* The rest of handleAnalyze once the PDFs are open and read.
AnalyzeSucceeds ==
  \E run \in anRuns :
    /\ \A i \in DOMAIN run.files : run.files[i].readable
    /\ anRuns' = anRuns \ {run}
    /\ anPdfText' = cleanText(Str(CombinedText(NewDocuments(run.files))))
    /\ anDocuments' = NewDocuments(run.files)
    /\ anAnalysisResult' = AllResults(NewDocuments(run.files))
    /\ anPdfFileName' =
         IF Len(run.files) > 1
         THEN Str(JsString(Num(Len(run.files))) \o S(<<" ","f","i","l","e","s">>))
         ELSE Str(run.files[1].name)
    /\ anIsLoading' = FALSE
    /\ UNCHANGED <<anFiles, anError, anPdfImages>>
    /\ UNCHANGED notAnVars

\* The catch of handleAnalyze when pdfjsLib rejects one of the files.
AnalyzeFails ==
  \E run \in anRuns :
    /\ \E i \in DOMAIN run.files : ~run.files[i].readable
    /\ anRuns' = anRuns \ {run}
    /\ anError' = Str(S(<<"I","n","v","a","l","i","d">>))
    /\ anIsLoading' = FALSE
    /\ UNCHANGED <<anFiles, anAnalysisResult, anPdfText, anDocuments,
                   anPdfImages, anPdfFileName>>
    /\ UNCHANGED notAnVars

NextAn ==
  \/ handleFilesSelected
  \/ removeFile
  \/ handleAnalyze
  \/ AnalyzeSucceeds
  \/ AnalyzeFails

\* ------------------------------------------------------------------------
\* QA/QC audit: one run of the checks (QaqcPage.handleAnalysis)
\* ------------------------------------------------------------------------

\* newResults of handleAnalysis, computed for any text and rows.
NewResults(sourceText, excelData, selectedChecks, results) ==
  LET assigned == Assignments(sourceText, excelData)
  IN  [key \in CheckKeys |->
         IF selectedChecks[key] /\ assigned[key].found
         THEN assigned[key].value
         ELSE results[key]]

\* Longest sheet handed to one run, in rows.
MaxCheckRows == 2

\* The header a sheet carries for the column of each check.
ChkHeader(key) ==
  CASE key = "fileName" ->
        S(<<"F","i","l","e"," ","N","a","m","e">>)
    [] key = "projectUnits" ->
        S(<<"P","r","o","j","e","c","t"," ","U","n","i","t","s">>)
    [] key = "surveyPoint" ->
        S(<<"S","u","r","v","e","y"," ","P","o","i","n","t">>)
    [] key = "projectBasePoint" ->
        S(<<"P","B","P">>)
    [] key = "rvtLinkPinned" ->
        S(<<"R","V","T"," ","L","i","n","k"," ","i","s"," ","P","i","n","n",
            "e","d">>)
    [] key = "navisworksViewName" ->
        S(<<"N","a","v","i","s","w","o","r","k","s"," ","V","i","e","w"," ",
            "N","a","m","e">>)
    [] key = "startingViewName" ->
        S(<<"S","t","a","r","t","i","n","g"," ","V","i","e","w"," ","N","a",
            "m","e">>)
    [] key = "levelsGridsPinned" ->
        S(<<"L","e","v","e","l","s","-","G","r","i","d","s"," ","/"," ","E",
            "l","e","m","e","n","t"," ","i","s"," ","P","i","n","n","e","d">>)
    [] key = "revitLinksPath" ->
        S(<<"R","e","v","i","t"," ","L","i","n","k","s"," ","P","a","t","h">>)
    [] key = "importedCad" ->
        S(<<"I","m","p","o","r","t","e","d"," ","C","A","D">>)
    [] key = "categoryWorksetName" ->
        S(<<"C","a","t","e","g","o","r","y"," ","W","o","r","k","s","e","t",
            " ","N","a","m","e">>)
    [] key = "viewsNotInSheets" ->
        S(<<"V","i","e","w","s"," ","n","o","t"," ","i","n"," ","S","h","e",
            "e","t","s">>)

\* Cells found in every column: the number 0, an empty cell, the boolean true.
CommonCells == {Num(0), Str(<<>>), Bool(TRUE)}

\* Cells of the column of each check.
ChkCells(key) ==
  CommonCells \cup
  CASE key = "fileName" ->
        {Str(S(<<"A","B","-","0","0","0","1","2","3",".","r","v","t">>)),
         Str(S(<<"X","Y","_","1","2">>))}
    [] key = "projectUnits" ->
        {Str(S(<<"M","e","t","r","i","c"," ","(","m","m",")">>)),
         Str(S(<<"i","m","p","e","r","i","a","l">>))}
    [] key = "surveyPoint" ->
        {Str(S(<<"N","1","0","0">>)),
         Str(S(<<"E","5">>))}
    [] key = "projectBasePoint" ->
        {Str(S(<<"N","1","0","0">>)),
         Str(S(<<"E","5">>))}
    [] key = "rvtLinkPinned" ->
        {Str(S(<<" ","T","r","u","e">>)),
         Str(S(<<"f","a","l","s","e">>))}
    [] key = "navisworksViewName" ->
        {Str(S(<<"N","A","V","I","S","W","O","R","K","S"," ","3","D">>)),
         Str(S(<<"3","D">>))}
    [] key = "startingViewName" ->
        {Str(S(<<"P","l","a","n">>)),
         Str(S(<<"r","e","v"," ","a">>))}
    [] key = "levelsGridsPinned" ->
        {Str(S(<<"L","e","v","e","l"," ","/"," ","Y","e","s">>)),
         Str(S(<<"G","r","i","d"," ","/"," ","n","o">>))}
    [] key = "revitLinksPath" ->
        {Str(S(<<"C",":","/","A","C","C","D","o","c","s","/","a">>)),
         Str(S(<<"D",":","/","b">>))}
    [] key = "importedCad" ->
        {Str(S(<<"s","i","t","e",".","d","w","g">>)),
         Str(S(<<" ">>))}
    [] key = "categoryWorksetName" ->
        {Str(S(<<"S","h","a","r","e","d">>)),
         Str(S(<<"a","r","c","h">>))}
    [] key = "viewsNotInSheets" ->
        {Str(S(<<"3","D">>)),
         Str(S(<<" ">>))}

\* The sheets of one check: up to MaxCheckRows rows of its column.
ChkSheets(key) ==
  {[i \in DOMAIN values |-> SheetRow(<<ChkHeader(key)>>, <<values[i]>>)] :
     values \in SeqsUpTo(ChkCells(key), MaxCheckRows)}

\* Source texts: a tie of one metric and one imperial word, more imperial
\* words than metric ones, no unit word at all, millimeter against two
\* imperial words.
ChkTexts ==
  {S(<<"A","B"," ","P","l","a","n"," ","N","1","0","0"," ","S","h","a","r",
       "e","d"," ","m","e","t","r","i","c"," ","i","n","c","h">>),
   S(<<"x","y"," ","f","e","e","t"," ","I","n","c","h"," ","M","E","T","E",
       "R"," ","i","m","p","e","r","i","a","l">>),
   S(<<"A","B"," ","r","e","v"," ","A">>),
   S(<<"m","i","l","l","i","m","e","t","e","r"," ","f","e","e","t"," ","i",
       "n","c","h">>)}

InitChk ==
  /\ chkText = NULL
  /\ chkKey = NULL
  /\ chkSheet = NULL
  /\ chkResults = NULL

\* handleAnalysis on a page that holds no results yet, every check selected.
AuditOneColumn ==
  \E key \in CheckKeys :
    \E sourceText \in ChkTexts, excelData \in ChkSheets(key) :
      /\ chkSheet = NULL
      /\ chkText' = Str(sourceText)
      /\ chkKey' = key
      /\ chkSheet' = [rows |-> excelData]
      /\ chkResults' = NewResults(sourceText, excelData, AllSelected, NoResults)
      /\ UNCHANGED notChkVars

NextChk == AuditOneColumn


\* ------------------------------------------------------------------------
\* QA/QC audit: one run on the columns of three checks
\* ------------------------------------------------------------------------

\* Longest sheet with three columns, in rows.
MaxFrameRows == 1

\* The checks whose columns the sheet has.
FrameKeys == {"fileName", "projectUnits", "rvtLinkPinned"}

\* Rows with the columns File Name, Project Units and RVT Link is Pinned.
FrameRows ==
  {SheetRow(SheetAHeaders, <<name, units, pinned>>) :
     name \in {Str(S(<<"A","B","-","0","0","0","1","2","3",".","r","v","t">>)),
               Str(S(<<"X","Y","_","1","2">>)), Str(<<>>)},
     units \in {Str(S(<<"M","e","t","r","i","c">>)), Str(S(<<"i","m","p","e","r","i","a","l">>))},
     pinned \in {Bool(TRUE), Str(<<>>)}}

FrameSheets == SeqsUpTo(FrameRows, MaxFrameRows)

\* selectedChecks with the boxes of chosen ticked.
Selection(chosen) == [key \in CheckKeys |-> key \in chosen]

FrameTexts ==
  {S(<<"A","B"," ","m","e","t","r","i","c">>),
   S(<<"x","y"," ","f","e","e","t"," ","i","n","c","h">>)}

InitFrame ==
  /\ frText = NULL
  /\ frSheet = NULL
  /\ frSelected = Selection({})
  /\ frResults = NULL

\* handleAnalysis on a page that holds no results yet, some boxes ticked.
AuditThreeColumns ==
  \E sourceText \in FrameTexts, excelData \in FrameSheets :
    \E chosen \in SUBSET FrameKeys :
      /\ frSheet = NULL
      /\ frText' = Str(sourceText)
      /\ frSheet' = [rows |-> excelData]
      /\ frSelected' = Selection(chosen)
      /\ frResults' = NewResults(sourceText, excelData, Selection(chosen),
                                 NoResults)
      /\ UNCHANGED notFrameVars

NextFrame == AuditThreeColumns

\* ------------------------------------------------------------------------
\* Parameter compliance (ParameterCheckPage.handleAnalyze)
\* ------------------------------------------------------------------------

excludedColumns ==
  {S(<<"c","a","t","e","g","o","r","y"," ","n","a","m","e">>),
   S(<<"e","l","e","m","e","n","t"," ","i","d">>),
   S(<<"s","o","u","r","c","e"," ","f","i","l","e">>),
   S(<<"f","i","l","e"," ","n","a","m","e">>)}

\* allHeaders.filter(h => !excludedColumns.includes(h.toLowerCase()))
NotExcluded(h) == ToLowerCase(h) \notin excludedColumns

IsSourceFileHeader(h) ==
  ToLowerCase(h) \in {S(<<"s","o","u","r","c","e"," ","f","i","l","e">>),
                      S(<<"f","i","l","e"," ","n","a","m","e">>)}

IsLoinParamHeader(h) ==
  ToLowerCase(Trim(h)) = S(<<"l","o","i","n"," ","p","a","r","a","m","e","t","e","r">>)

\* Array.from(new Set(values)): the values in order of first occurrence.
RECURSIVE Distinct(_)
Distinct(values) ==
  IF values = <<>> THEN <<>>
  ELSE LET front == Distinct(SubSeq(values, 1, Len(values) - 1))
           last == values[Len(values)]
       IN  IF last \in Range(front) THEN front ELSE Append(front, last)

\* standardParams of the LOIN rows
StandardParams(standardData) ==
  LET loinHeaders == HeadersOf(standardData)
      loinParamHeader == FindHeader(loinHeaders, {x \in Range(loinHeaders) : IsLoinParamHeader(x)})
      vals == [i \in DOMAIN standardData |->
                 Trim(JsString(OrEmpty(standardData[i].cells[loinParamHeader])))]
  IN  IF loinParamHeader # NoHeader
      THEN Distinct(SelectSeq(vals, LAMBDA val : val # <<>>))
      ELSE SelectSeq(loinHeaders, NotExcluded)

normalizeIgnoringCase(s) == ToLowerCase(Trim(s))

\* const normalize = (s) => s.trim()
normalize(s) == Trim(s)

\* list.sort((a, b) => a.localeCompare(b))
RECURSIVE SortStrings(_)
SortStrings(list) ==
  IF list = <<>> THEN <<>>
  ELSE LET front == SortStrings(SubSeq(list, 1, Len(list) - 1))
           last == list[Len(list)]
           k == Cardinality({i \in DOMAIN front : LocaleCompare(front[i], last) <= 0})
       IN  SubSeq(front, 1, k) \o <<last>> \o SubSeq(front, k + 1, Len(front))

ScoreHundredWhenNoneExpected(matched, totalExpected) ==
  IF totalExpected > 0 THEN [num |-> Len(matched) * 100, den |-> totalExpected]
  ELSE [num |-> 100, den |-> 1]

\* complianceScore, the quotient (matched.length / totalExpected) * 100 kept
\* as the fraction num / den.
ComplianceScore(matched, totalExpected) ==
  IF totalExpected > 0 THEN [num |-> Len(matched) * 100, den |-> totalExpected]
  ELSE IF Len(matched) > 0 THEN [num |-> 100, den |-> 1]
  ELSE [num |-> 0, den |-> 1]

\* The ComplianceResult of the required list against the data columns.
Compliance(analyzableHeaders, standardParams) ==
  LET dataHeaderSet == {normalize(h) : h \in Range(analyzableHeaders)}
      standardParamSet == {normalize(q) : q \in Range(standardParams)}
      matched == SelectSeq(standardParams,
                           LAMBDA stdP : normalize(stdP) \in dataHeaderSet)
      missing == SelectSeq(standardParams,
                           LAMBDA stdP : normalize(stdP) \notin dataHeaderSet)
      extra == SelectSeq(analyzableHeaders,
                         LAMBDA dataP : normalize(dataP) \notin standardParamSet)
  IN  [matched |-> SortStrings(matched),
       missing |-> SortStrings(missing),
       extra |-> SortStrings(extra),
       complianceScore |-> ComplianceScore(matched, Len(standardParams))]

\* Most parameter columns in a data sheet, and most headers of a LOIN template.
MaxParamColumns == 2

\* Most rows in a LOIN sheet that lists the parameters in a column.
MaxLoinRows == 2

H_SourceFile ==
  S(<<"S","o","u","r","c","e"," ","F","i","l","e">>)

H_LoinParameter ==
  S(<<" ","L","o","i","n"," ","P","a","r","a","m","e","t","e","r">>)

\* Column names of data sheets and LOIN templates.
ParamNames ==
  {S(<<"W","i","d","t","h">>),
   S(<<"w","i","d","t","h">>),
   S(<<" ","W","i","d","t","h">>),
   S(<<"H","e","i","g","h","t">>),
   S(<<"E","l","e","m","e","n","t"," ","I","D">>)}

\* Cells of the parameter column of a LOIN sheet.
LoinCells ==
  {Str(<<>>), Num(0),
   Str(S(<<"W","i","d","t","h">>)),
   Str(S(<<" ","W","i","d","t","h"," ">>)),
   Str(S(<<"H","e","i","g","h","t">>)),
   Str(S(<<"D","e","p","t","h">>))}

DistinctSeqsUpTo(elems, n) ==
  {s \in SeqsUpTo(elems, n) : Cardinality(Range(s)) = Len(s)}

\* Object.keys(jsonData[0]) of the data sheets: with and without the
\* source-file column.
DataHeaderLists ==
  {<<H_SourceFile>> \o hs : hs \in DistinctSeqsUpTo(ParamNames, MaxParamColumns)}
    \cup {<<h>> : h \in ParamNames}

\* The rows of the LOIN files: none, parameters listed in a column, or a
\* template whose headers are the parameters.
LoinSheets ==
  {<<>>}
    \cup {[i \in DOMAIN cells |-> SheetRow(<<H_LoinParameter>>, <<cells[i]>>)] :
            cells \in SeqsUpTo(LoinCells, MaxLoinRows) \ {<<>>}}
    \cup {<<SheetRow(hs, [i \in DOMAIN hs |-> Str(<<>>)])>> :
            hs \in DistinctSeqsUpTo(ParamNames \cup {H_SourceFile}, MaxParamColumns)
                    \ {<<>>}}

\* Each run of the model: the headers of the data sheet, whether a LOIN file
\* is selected, and its rows.
ComplianceInputs ==
  {[allHeaders |-> hs, loinFile |-> FALSE, standardData |-> <<>>] :
     hs \in DataHeaderLists}
    \cup {[allHeaders |-> hs, loinFile |-> TRUE, standardData |-> rows] :
            hs \in DataHeaderLists, rows \in LoinSheets}

InitComp ==
  /\ compColumns = NULL
  /\ compRequired = NULL
  /\ compResult = NULL
  /\ compError = NULL

\* handleAnalyze up to setComplianceResult, the data sheet having rows: a
\* missing source-file column ends the run; the LOIN rows, if any, give the
\* compliance result.
AnalyzeCompliance ==
  \E in \in ComplianceInputs :
    LET analyzableHeaders == SelectSeq(in.allHeaders, NotExcluded)
        sourceFileHeader == FindHeader(in.allHeaders, {x \in Range(in.allHeaders) : IsSourceFileHeader(x)})
        standardParams == StandardParams(in.standardData)
    IN  /\ compColumns = NULL
        /\ compColumns' = [items |-> analyzableHeaders]
        /\ IF sourceFileHeader = NoHeader
           THEN /\ compError' = Str(S(<<"A">>))
                /\ compRequired' = NULL
                /\ compResult' = NULL
           ELSE /\ compError' = NULL
                /\ IF in.loinFile /\ Len(in.standardData) > 0
                   THEN /\ compRequired' = [items |-> standardParams]
                        /\ compResult' = Compliance(analyzableHeaders, standardParams)
                   ELSE /\ compRequired' = NULL
                        /\ compResult' = NULL
        /\ UNCHANGED notCompVars

NextComp == AnalyzeCompliance

\* ------------------------------------------------------------------------
\* Weekly delivery window (pages/QnAPage.tsx, WeeklyUpdatesPage)
\* ------------------------------------------------------------------------
\* A Date is the instant [day, ms]: whole days since 1970-01-01 UTC and the
\* milliseconds into that day.  Its local fields are those of the instant
\* moved by the zone's minutes.

msPerDay == 86400000

Instant(day, ms) == [day |-> day, ms |-> ms]

\* new Date(NaN)
InvalidDate == [day |-> 0, ms |-> -1]

\* a < b, a <= b as the relational operators compare two Dates
Earlier(a, b) == a.day < b.day \/ (a.day = b.day /\ a.ms < b.ms)
NotLater(a, b) == a = b \/ Earlier(a, b)

\* The instant minutes later (earlier when negative; less than a day).
PlusMinutes(d, minutes) ==
  LET total == d.ms + minutes * 60000
  IN  IF total < 0 THEN Instant(d.day - 1, total + msPerDay)
      ELSE IF total >= msPerDay THEN Instant(d.day + 1, total - msPerDay)
      ELSE Instant(d.day, total)

\* Day number of the civil date year-month-date (MakeDay of ECMAScript, the
\* date counted on from the first of the month).
MakeDay(year, month, date) ==
  LET y == IF month <= 2 THEN year - 1 ELSE year
      era == y \div 400
      yoe == y - era * 400
      mp == IF month > 2 THEN month - 3 ELSE month + 9
      doy == (153 * mp + 2) \div 5
      doe == yoe * 365 + yoe \div 4 - yoe \div 100 + doy
  IN  era * 146097 + doe - 719468 + (date - 1)

\* Year, month and date of a day number (YearFromTime, MonthFromTime,
\* DateFromTime of ECMAScript).
CivilFromDay(day) ==
  LET z == day + 719468
      era == z \div 146097
      doe == z - era * 146097
      yoe == (doe - doe \div 1460 + doe \div 36524 - doe \div 146096) \div 365
      doy == doe - (365 * yoe + yoe \div 4 - yoe \div 100)
      mp == (5 * doy + 2) \div 153
      month == IF mp < 10 THEN mp + 3 ELSE mp - 9
  IN  [year |-> yoe + era * 400 + (IF month <= 2 THEN 1 ELSE 0),
       month |-> month,
       date |-> doy - (153 * mp + 2) \div 5 + 1]

\* d.getDay(): 0 Sunday .. 6 Saturday, of the local date
getDay(d, zone) == (PlusMinutes(d, zone).day + 4) % 7

\* d.getDate()
getDate(d, zone) == CivilFromDay(PlusMinutes(d, zone).day).date

\* d.setDate(date): the local month and time of day kept
setDate(d, zone, date) ==
  LET local == PlusMinutes(d, zone)
      civil == CivilFromDay(local.day)
  IN  PlusMinutes(Instant(MakeDay(civil.year, civil.month, date), local.ms), -zone)

\* d.setHours(h, m, s, ms): the local date kept
setHours(d, zone, h, m, s, ms) ==
  PlusMinutes(Instant(PlusMinutes(d, zone).day,
                      ((h * 60 + m) * 60 + s) * 1000 + ms), -zone)

DiffToSaturday(day) == (day + 1) % 7

\* diffToFri: days since the most recent Friday
DiffToFri(day) == (day + 2) % 7

getDeliveryWindow(today, zone) ==
  LET diffToFri == DiffToFri(getDay(today, zone))
      windowStart == setHours(setDate(today, zone, getDate(today, zone) - diffToFri),
                              zone, 0, 0, 0, 0)
      windowEnd == setHours(setDate(windowStart, zone, getDate(windowStart, zone) + 6),
                            zone, 23, 59, 59, 999)
  IN  [start |-> windowStart, end |-> windowEnd]

\* Days taken after each of the first days below.
DaysAround == 8

\* 2024-02-25, 2025-12-27 and 2026-10-28: a leap day, a new year and a
\* month's end follow within days.
FirstDays == {MakeDay(2024, 2, 25), MakeDay(2025, 12, 27), MakeDay(2026, 10, 28)}

TimesOfDay == {0, 1, 43200000, msPerDay - 1}

\* Minutes the local clock is ahead of UTC.
Zones == {-300, 0, 330}

WindowNows ==
  {Instant(first + k, ms) : first \in FirstDays, k \in 0..(DaysAround - 1),
                            ms \in TimesOfDay}

InitWin ==
  /\ winNow = NULL
  /\ winZone = 0
  /\ winWindow = NULL

\* One call of getDeliveryWindow, at any instant in any zone.
DeliveryWindowCall ==
  \E today \in WindowNows, zone \in Zones :
    /\ winNow = NULL
    /\ winNow' = today
    /\ winZone' = zone
    /\ winWindow' = getDeliveryWindow(today, zone)
    /\ UNCHANGED notWinVars

NextWin == DeliveryWindowCall

\* ------------------------------------------------------------------------
\* Weekly deliverable status (WeeklyUpdatesPage.parseExcel, reader.onload)
\* ------------------------------------------------------------------------

NotWhitespace(c) == ~IsJsWhitespace(c)

\* h.toLowerCase().trim().replace(/\s+/g, '')
HeaderKey(h) == SelectSeq(Trim(ToLowerCase(h)), NotWhitespace)

\* findHeader(target)
findHeader(headers, target) ==
  FindHeader(headers, {h \in Range(headers) : HeaderKey(h) = HeaderKey(target)})

\* s.split(sep) for a separator of several characters
RECURSIVE SplitOn(_, _)
SplitOn(s, sep) ==
  IF ~Includes(s, sep) THEN <<s>>
  ELSE LET i == CHOOSE j \in 1..(Len(s) - Len(sep) + 1) :
                  /\ SubSeq(s, j, j + Len(sep) - 1) = sep
                  /\ \A m \in 1..(j - 1) : SubSeq(s, m, m + Len(sep) - 1) # sep
       IN  <<SubSeq(s, 1, i - 1)>> \o SplitOn(SubSeq(s, i + Len(sep), Len(s)), sep)

KeySeparator == S(<<" ","|","|","|"," ">>)

TARGET_Path ==
  S(<<"F","o","l","d","e","r"," ","n","a","m","e"," ","a","n","d"," ","p","a",
      "t","h">>)
TARGET_Name == S(<<"N","a","m","e">>)
TARGET_Updated == S(<<"L","a","s","t"," ","U","p","d","a","t","e","d">>)

DATE_Jan15 ==
  S(<<"J","a","n"," ","1","5",","," ","2","0","2","6"," ","2",":","2","4"," ",
      "P","M">>)

\* new Date(text): "Jan 15, 2026 2:24 PM" is read as local date and time;
\* any other text of the model gives an invalid Date.
DateParse(text, zone) ==
  IF text = DATE_Jan15
  THEN PlusMinutes(Instant(MakeDay(2026, 1, 15), (14 * 60 + 24) * 60000), -zone)
  ELSE InvalidDate

\* updateDate of a row: NULL when the cell is falsy
UpdateDate(rawDateValue, zone) ==
  IF ~Truthy(rawDateValue) THEN NULL
  ELSE IF rawDateValue.t = "number" THEN Instant(rawDateValue.n - 25569, 0)
  ELSE DateParse(rawDateValue.s, zone)

\* Index in groupings of the entry for key, 0 when there is none.
GroupIndex(groupings, key) ==
  IF \E i \in DOMAIN groupings : groupings[i].key = key
  THEN CHOOSE i \in DOMAIN groupings : groupings[i].key = key
  ELSE 0

\* groupings[groupKey].latest || new Date(0)
LatestOrEpoch(latest) == IF latest = NULL THEN Instant(0, 0) ELSE latest

\* The body of json.forEach for one row: groupings after the row.
GroupRow(groupings, row, pathHeader, nameHeader, updateHeader, zone) ==
  LET path == JsString(OrEmpty(row.cells[pathHeader]))
      segments == SplitChar(path, 47)
      building == Trim(segments[3])
      deliverable == Trim(segments[4])
      groupKey == building \o KeySeparator \o deliverable
      at == GroupIndex(groupings, groupKey)
      updateDate == UpdateDate(row.cells[updateHeader], zone)
      fileName == IF Truthy(row.cells[nameHeader])
                  THEN JsString(row.cells[nameHeader])
                  ELSE S(<<"U","n","k","n","o","w","n">>)
      put(entry) == IF at = 0 THEN Append(groupings, entry)
                    ELSE [groupings EXCEPT ![at] = entry]
  IN  IF Len(segments) < 4 THEN groupings
      ELSE IF building = <<>> \/ deliverable = <<>> THEN groupings
      ELSE IF updateDate # NULL /\ updateDate # InvalidDate
      THEN IF at = 0 \/ Earlier(LatestOrEpoch(groupings[at].latest), updateDate)
           THEN put([key |-> groupKey, latest |-> updateDate, fileName |-> fileName])
           ELSE groupings
      ELSE IF at = 0
      THEN put([key |-> groupKey, latest |-> NULL,
                fileName |-> S(<<"N","o"," ","v","a","l","i","d"," ","d","a","t","e",
                                 " ","f","o","u","n","d">>)])
      ELSE groupings

RECURSIVE Groupings(_, _, _, _, _)
Groupings(json, pathHeader, nameHeader, updateHeader, zone) ==
  IF json = <<>> THEN <<>>
  ELSE GroupRow(Groupings(SubSeq(json, 1, Len(json) - 1), pathHeader, nameHeader,
                          updateHeader, zone),
                json[Len(json)], pathHeader, nameHeader, updateHeader, zone)

\* One DeliverableStatus of the map over Object.entries(groupings).
DeliverableOf(info, window) ==
  LET parts == SplitOn(info.key, KeySeparator)
  IN  [building |-> parts[1],
       deliverable |-> parts[2],
       latestUpdate |-> info.latest,
       latestFileName |-> info.fileName,
       status |-> IF /\ info.latest # NULL
                     /\ NotLater(window.start, info.latest)
                     /\ NotLater(info.latest, window.end)
                  THEN "OK" ELSE "Late"]

\* a.building.localeCompare(b.building) || a.deliverable.localeCompare(b.deliverable)
DeliverableCompare(a, b) ==
  IF LocaleCompare(a.building, b.building) # 0
  THEN LocaleCompare(a.building, b.building)
  ELSE LocaleCompare(a.deliverable, b.deliverable)

\* results.sort(...)
RECURSIVE SortDeliverables(_)
SortDeliverables(results) ==
  IF results = <<>> THEN <<>>
  ELSE LET front == SortDeliverables(SubSeq(results, 1, Len(results) - 1))
           last == results[Len(results)]
           k == Cardinality({i \in DOMAIN front :
                               DeliverableCompare(front[i], last) <= 0})
       IN  SubSeq(front, 1, k) \o <<last>> \o SubSeq(front, k + 1, Len(front))

\* Object.keys(json[0]): sheet_to_json leaves the blank cells of a row out.
KeysOf(row) == SelectSeq(row.headers, LAMBDA h : row.cells[h] # Undefined)

\* The header row of the weekly sheets.
H_Path ==
  S(<<"F","o","l","d","e","r"," ","N","a","m","e"," ","a","n","d"," ","P","a",
      "t","h">>)
H_Name == S(<<"n","a","m","e"," ">>)
H_Updated == S(<<"L","a","s","t"," "," ","U","p","d","a","t","e","d">>)

WeeklyHeaders == <<H_Path, H_Name, H_Updated>>

\* Most rows in a weekly sheet.
MaxWeeklyRows == 2

\* Folder paths: two spellings of one group, a second group, and a path with
\* fewer than four segments.
PATH_B1D1 == Str(S(<<"/","p","/","B","1","/","D","1","/","x">>))
PATH_B1D1Spaced == Str(S(<<"/","p","/"," ","B","1"," ","/","D","1">>))
PATH_B1D2 == Str(S(<<"/","p","/","B","1","/","D","2">>))
PATH_Short == Str(S(<<"/","p","/","B","1">>))

NotADate == Str(S(<<"n","/","a">>))

\* Path and update cells of the rows a sheet is put together from.  Serial
\* 46043 is 2026-01-21, serial 1000 is 1902-09-26.
WeeklyCells ==
  {<<PATH_B1D1, NotADate>>, <<PATH_B1D1, Num(1000)>>, <<PATH_B1D1, Num(46043)>>,
   <<PATH_B1D1Spaced, Str(DATE_Jan15)>>, <<PATH_B1D1Spaced, Undefined>>,
   <<PATH_B1D2, Num(46043)>>, <<PATH_B1D2, NotADate>>,
   <<PATH_Short, Num(46043)>>}

\* The i-th row is named f<i>.
WeeklySheet(cells) ==
  [i \in DOMAIN cells |->
     SheetRow(WeeklyHeaders,
              <<cells[i][1], Str(<<102>> \o Digits(i)), cells[i][2]>>)]

WeeklySheets ==
  {WeeklySheet(cells) : cells \in SeqsUpTo(WeeklyCells, MaxWeeklyRows)}

\* When and where the sheet is read: Wednesday 2026-01-21 12:00 UTC, and
\* Friday 2026-01-23 00:00 UTC in a zone five hours behind and in UTC.
WeeklyClocks ==
  {[today |-> Instant(20474, 43200000), zone |-> 0],
   [today |-> Instant(20476, 0), zone |-> -300],
   [today |-> Instant(20476, 0), zone |-> 0]}

InitWk ==
  /\ wkJson = NULL
  /\ wkZone = 0
  /\ wkResult = NULL
  /\ wkSummary = NULL
  /\ wkError = NULL

\* What reader.onload of parseExcel leaves in analysisResult, summary and
\* error for the rows read, the page holding analysisResult and summary.
OnloadOutcome(json, today, zone, analysisResult, summary) ==
  LET headers == IF json = <<>> THEN <<>> ELSE KeysOf(json[1])
      pathHeader == findHeader(headers, TARGET_Path)
      nameHeader == findHeader(headers, TARGET_Name)
      updateHeader == findHeader(headers, TARGET_Updated)
      window == getDeliveryWindow(today, zone)
      groupings == Groupings(json, pathHeader, nameHeader, updateHeader, zone)
      results == SortDeliverables(
                   [i \in DOMAIN groupings |-> DeliverableOf(groupings[i], window)])
      okCount == Cardinality({i \in DOMAIN results : results[i].status = "OK"})
  IN  IF json = <<>>
      THEN [analysisResult |-> analysisResult, summary |-> summary,
            error |-> Str(S(<<"T","h","e"," ","f","i","l","e">>))]
      ELSE IF NoHeader \in {pathHeader, nameHeader, updateHeader}
      THEN [analysisResult |-> analysisResult, summary |-> summary,
            error |-> Str(S(<<"R","e","q","u","i","r","e","d">>))]
      ELSE [analysisResult |-> [items |-> results],
            summary |-> [total |-> Len(results), ok |-> okCount,
                         late |-> Len(results) - okCount,
                         windowStart |-> window.start,
                         windowEnd |-> window.end],
            error |-> NULL]

\* The runs of the model: a sheet read at some instant in some zone by a
\* page without results, and what its onload leaves.
WeeklyRuns ==
  {[json |-> json, zone |-> clock.zone,
    outcome |-> OnloadOutcome(json, clock.today, clock.zone, NULL, NULL)] :
     json \in WeeklySheets, clock \in WeeklyClocks}

\* reader.onload of parseExcel, for the rows of the file read.
ParseExcelLoaded ==
  \E run \in WeeklyRuns :
    /\ wkJson = NULL
    /\ wkJson' = [rows |-> run.json]
    /\ wkZone' = run.zone
    /\ wkResult' = run.outcome.analysisResult
    /\ wkSummary' = run.outcome.summary
    /\ wkError' = run.outcome.error
    /\ UNCHANGED notWkVars

NextWk == ParseExcelLoaded

\* ------------------------------------------------------------------------
\* Header lookup (FileUploader.findHeader, QaqcPage.handleAnalysis)
\* ------------------------------------------------------------------------

\* [a-z0-9]
IsLowerAlnum(c) == c \in 97..122 \/ c \in 48..57

\* normalize(s) of FileUploader: s.toLowerCase().replace(/[^a-z0-9]/g, '')
NormalizeHeader(s) == SelectSeq(ToLowerCase(s), IsLowerAlnum)

\* findHeader(possibleNames) of FileUploader, from the candidate at index
\* from on.
RECURSIVE FindHeaderFrom(_, _, _)
FindHeaderFrom(headers, possibleNames, from) ==
  IF from > Len(possibleNames) THEN NoHeader
  ELSE LET normalizedName == NormalizeHeader(possibleNames[from])
           header == FindHeader(headers,
                       {h \in Range(headers) :
                          NormalizeHeader(h) = normalizedName})
       IN  IF header # NoHeader /\ header # <<>> THEN header
           ELSE FindHeaderFrom(headers, possibleNames, from + 1)

FileUploaderFindHeader(headers, possibleNames) ==
  FindHeaderFrom(headers, possibleNames, 1)

\* nameColumns of both uploaders of MIDPCheckPage
nameColumns ==
  <<S(<<"M","o","d","e","l"," ","N","a","m","e">>),
    S(<<"D","r","a","w","i","n","g"," ","N","a","m","e">>),
    S(<<"N","a","m","e">>),
    S(<<"F","i","l","e"," ","N","a","m","e">>)>>

\* Most columns of a sheet.
MaxHeaders == 3

HeaderPool ==
  {S(<<"F","i","l","e"," ","N","a","m","e">>),
   S(<<"M","o","d","e","l"," ","N","a","m","e">>),
   S(<<"f","i","l","e","_","n","a","m","e">>),
   S(<<"N","A","M","E">>),
   S(<<"F","o","r","m","a","t">>),
   S(<<" ","F","i","l","e","n","a","m","e"," ">>)}

HeaderLists == DistinctSeqsUpTo(HeaderPool, MaxHeaders)

InitHdr ==
  /\ hdrHeaders = NULL
  /\ hdrName = NULL
  /\ hdrFileName = NULL

\* Both pages look their name column up in the headers of a sheet.
LookUpNameColumns ==
  \E headers \in HeaderLists :
    /\ hdrHeaders = NULL
    /\ hdrHeaders' = [items |-> headers]
    /\ hdrName' = FileUploaderFindHeader(headers, nameColumns)
    /\ hdrFileName' = FindHeader(headers,
                         {h \in Range(headers) : IsFileNameHeader(h)})
    /\ UNCHANGED notHdrVars

NextHdr == LookUpNameColumns

\* ------------------------------------------------------------------------
\* Separated QA validation (Qaqc2Page.performLocalValidation, processFiles)
\* ------------------------------------------------------------------------

\* a || b
OrValue(a, b) == IF Truthy(a) THEN a ELSE b

\* s.split(/[-_]/)
RECURSIVE SplitAny(_, _)
SplitAny(s, seps) ==
  IF \E i \in DOMAIN s : s[i] \in seps
  THEN LET i == CHOOSE k \in DOMAIN s :
                  s[k] \in seps /\ \A j \in 1..(k - 1) : s[j] \notin seps
       IN  <<SubSeq(s, 1, i - 1)>> \o SplitAny(SubSeq(s, i + 1, Len(s)), seps)
  ELSE <<s>>

\* /^[A-Z0-9_-]+$/.test(clean), for a clean that is not empty
IsCode(clean) ==
  \A i \in DOMAIN clean : clean[i] \in (65..90) \cup (48..57) \cup {95, 45}

\* pdfTokens of performLocalValidation
Q2Tokens(pdfText) ==
  {ToUpperCase(clean) :
     clean \in {c \in {SelectSeq(Trim(w), NotBracket) :
                         w \in Range(SplitSeparators(pdfText))} :
                  Len(c) > 0 /\ IsCode(c)}}

\* row[key] of a sheet_to_json row read without defval: a missing cell has no key
CellOf(row, key) == IF key \in DOMAIN row THEN row[key] ELSE Undefined

Q2_FileName == S(<<"F","i","l","e"," ","N","a","m","e">>)
Q2_filename == S(<<"f","i","l","e","n","a","m","e">>)

\* csvData[0]?.["File Name"] || csvData[0]?.["filename"] || ""
FirstFileName(csvData) ==
  IF csvData = <<>> THEN Str(<<>>)
  ELSE OrValue(CellOf(csvData[1], Q2_FileName),
               OrValue(CellOf(csvData[1], Q2_filename), Str(<<>>)))

\* firstFileName.includes is called: a TypeError when firstFileName is a
\* number or a boolean.
DelimiterThrows(csvData) == FirstFileName(csvData).t # "string"

\* The delimiter, 0 for null.
Q2Delimiter(csvData) ==
  LET firstFileName == FirstFileName(csvData).s
  IN  IF 45 \in Range(firstFileName) THEN 45
      ELSE IF 95 \in Range(firstFileName) THEN 95
      ELSE 0

\* \[([^\]]+)\] matched at i: the index of its closing bracket, 0 when it
\* does not match there.
GroupEnd(s, i) ==
  IF i \in DOMAIN s /\ s[i] = 91 /\ \E k \in (i + 1)..Len(s) : s[k] = 93
  THEN LET k == CHOOSE k \in (i + 1)..Len(s) :
                  s[k] = 93 /\ \A j \in (i + 1)..(k - 1) : s[j] # 93
       IN  IF k > i + 1 THEN k ELSE 0
  ELSE 0

\* (?:[-_]\[([^\]]+)\])* matched greedily after index k: where it ends.
RECURSIVE GroupsEnd(_, _)
GroupsEnd(s, k) ==
  IF k + 1 \in DOMAIN s /\ s[k + 1] \in {45, 95} /\ GroupEnd(s, k + 2) # 0
  THEN GroupsEnd(s, GroupEnd(s, k + 2))
  ELSE k

\* pdfText.match(/\[([^\]]+)\](?:[-_]\[([^\]]+)\])+/): match[0], <<>> for null.
StructureMatch(pdfText) ==
  LET at(i) == GroupEnd(pdfText, i) # 0
                 /\ GroupsEnd(pdfText, GroupEnd(pdfText, i)) > GroupEnd(pdfText, i)
  IN  IF \E i \in DOMAIN pdfText : at(i)
      THEN LET i == CHOOSE k \in DOMAIN pdfText :
                      at(k) /\ \A j \in 1..(k - 1) : ~at(j)
           IN  SubSeq(pdfText, i, GroupsEnd(pdfText, GroupEnd(pdfText, i)))
      ELSE <<>>

NotSquareBracket(c) == c \notin {91, 93}

\* labels
Labels(pdfText) ==
  IF StructureMatch(pdfText) = <<>> THEN <<>>
  ELSE SplitAny(SelectSeq(StructureMatch(pdfText), NotSquareBracket), {45, 95})

\* String(row["File Name"] || row["filename"] || "").trim()
FullName(row) ==
  Trim(JsString(OrValue(CellOf(row, Q2_FileName),
                        OrValue(CellOf(row, Q2_filename), Str(<<>>)))))

\* labels[index] || `Segment ${index + 1}`, index counted from 1 here
SegmentName(labels, index) ==
  IF index \in DOMAIN labels /\ labels[index] # <<>> THEN labels[index]
  ELSE S(<<"S","e","g","m","e","n","t"," ">>) \o Digits(index)

\* The segments of one named row, each with its verdict.
SegmentsOf(pdfTokens, labels, delimiter, fullName) ==
  LET segments == IF delimiter # 0 THEN SplitChar(fullName, delimiter)
                  ELSE <<fullName>>
  IN  [index \in DOMAIN segments |->
         [fileName |-> fullName,
          segmentName |-> SegmentName(labels, index),
          segmentValue |-> segments[index],
          status |-> IF ToUpperCase(segments[index]) \in pdfTokens
                     THEN "Correct" ELSE "Incorrect"]]

RECURSIVE Flatten(_)
Flatten(seqs) ==
  IF seqs = <<>> THEN <<>> ELSE Head(seqs) \o Flatten(Tail(seqs))

\* The summary record of one named row.
SummaryOf(detailed) ==
  LET errors == Len(SelectSeq(detailed, LAMBDA d : d.status = "Incorrect"))
  IN  [fileName |-> detailed[1].fileName,
       status |-> IF errors = 0 THEN "Pass" ELSE "Fail",
       errorsCount |-> errors,
       warningsCount |-> 0]

\* performLocalValidation(pdfText, csvData), for a csvData it does not throw on
performLocalValidation(pdfText, csvData) ==
  LET pdfTokens == Q2Tokens(pdfText)
      delimiter == Q2Delimiter(csvData)
      labels == Labels(pdfText)
      named == SelectSeq(csvData, LAMBDA row : FullName(row) # <<>>)
      perRow == [i \in DOMAIN named |->
                   SegmentsOf(pdfTokens, labels, delimiter, FullName(named[i]))]
  IN  [summary |-> [i \in DOMAIN perRow |-> SummaryOf(perRow[i])],
       detailed |-> Flatten(perRow)]

\* What reader.onload of processFiles leaves in results and error.
Q2Outcome(pdfText, json) ==
  IF json = <<>>
  THEN [results |-> NULL,
        error |-> Str(S(<<"T","h","e"," ","u","p","l","o","a","d","e","d">>))]
  ELSE IF DelimiterThrows(json)
  THEN [results |-> NULL,
        error |-> Str(S(<<"E","r","r","o","r"," ","p","r","o","c","e","s","s",
                          "i","n","g">>))]
  ELSE [results |-> performLocalValidation(pdfText, json), error |-> NULL]

\* Longest sheet of file names, in rows.
MaxQ2Rows == 2

Q2Cell(key, value) == [k \in {key} |-> value]

\* Rows of the sheet: names split by '-' and by '_', a name in the second
\* column, a numeric and a boolean name, an empty name, a row without name.
Q2Rows ==
  {Q2Cell(Q2_FileName, Str(S(<<"A","R","C","H","-","L","0","1">>))),
   Q2Cell(Q2_FileName, Str(S(<<"A","R","C","H","_","x","9">>))),
   Q2Cell(Q2_filename, Str(S(<<" ","L","0","1"," ">>))),
   Q2Cell(Q2_FileName, Num(123)),
   Q2Cell(Q2_FileName, Num(0)),
   Q2Cell(Q2_FileName, Bool(TRUE)),
   Q2Cell(Q2_FileName, Str(S(<<" ">>))),
   [k \in {} |-> NULL]}

Q2Sheets == SeqsUpTo(Q2Rows, MaxQ2Rows)

\* Texts extractTextFromPdf returns.
Q2Texts ==
  {cleanText(Str(S(<<"[","P","r","o","j","]","-","[","L","v","l","]"," ",
                    "A","R","C","H",","," ","(","L","0","1",")","LF">>))).s,
   cleanText(Str(S(<<"a","r","c","h"," ","|"," ","X","9">>))).s}

InitQ2 ==
  /\ q2Text = NULL
  /\ q2Json = NULL
  /\ q2Results = NULL
  /\ q2Error = NULL

\* reader.onload of processFiles, which has set error and results to null.
Qaqc2CsvLoaded ==
  \E pdfText \in Q2Texts, json \in Q2Sheets :
    /\ q2Json = NULL
    /\ q2Text' = Str(pdfText)
    /\ q2Json' = [rows |-> json]
    /\ q2Results' = Q2Outcome(pdfText, json).results
    /\ q2Error' = Q2Outcome(pdfText, json).error
    /\ UNCHANGED notQ2Vars

NextQ2 == Qaqc2CsvLoaded

\* ------------------------------------------------------------------------
\* Parameter completion (ParameterCheckPage.handleAnalyze, after compliance)
\* ------------------------------------------------------------------------

\* value !== null && value !== undefined && String(value).trim() !== ''
IsFilled(value) ==
  value # NULL /\ value # Undefined /\ Trim(JsString(value)) # <<>>

\* String(row[sourceFileHeader] || '').trim()
SourceFileOf(row, sourceFileHeader) ==
  Trim(JsString(OrEmpty(row.cells[sourceFileHeader])))

\* [...new Set(jsonData.map(...))].filter(Boolean)
UniqueSourceFiles(jsonData, sourceFileHeader) ==
  SelectSeq(Distinct([i \in DOMAIN jsonData |->
                        SourceFileOf(jsonData[i], sourceFileHeader)]),
            LAMBDA sf : sf # <<>>)

\* The cells of the rows under the headers that pass IsFilled.
FilledCells(rows, headers) ==
  Cardinality({<<i, k>> \in (DOMAIN rows) \X (DOMAIN headers) :
                 IsFilled(rows[i].cells[headers[k]])})

\* (part / whole) * 100 kept as a fraction, 0 when whole is 0.
Percentage(part, whole) ==
  IF whole > 0 THEN [num |-> part * 100, den |-> whole]
  ELSE [num |-> 0, den |-> 1]

\* One entry of perSourceSummary.
SourceSummary(jsonData, sourceFileHeader, analyzableHeaders, sf) ==
  LET rowsForFile == SelectSeq(jsonData,
                       LAMBDA row : SourceFileOf(row, sourceFileHeader) = sf)
      filledParamCells == FilledCells(rowsForFile, analyzableHeaders)
      emptyParamCells ==
        Len(rowsForFile) * Len(analyzableHeaders) - filledParamCells
      totalParamCells == filledParamCells + emptyParamCells
  IN  [sourceFile |-> sf,
       totalElements |-> Len(rowsForFile),
       filledCells |-> filledParamCells,
       emptyCells |-> emptyParamCells,
       filledPercentage |-> Percentage(filledParamCells, totalParamCells),
       emptyPercentage |-> Percentage(emptyParamCells, totalParamCells)]

PerSourceSummary(jsonData, sourceFileHeader, analyzableHeaders) ==
  LET uniqueSourceFiles == UniqueSourceFiles(jsonData, sourceFileHeader)
  IN  [i \in DOMAIN uniqueSourceFiles |->
         SourceSummary(jsonData, sourceFileHeader, analyzableHeaders,
                       uniqueSourceFiles[i])]

\* summary of the global parameter analysis
ParameterSummary(jsonData, analyzableHeaders) ==
  LET totalRows == Len(jsonData)
  IN  [k \in DOMAIN analyzableHeaders |->
         LET filledCount == FilledCells(jsonData, <<analyzableHeaders[k]>>)
         IN  [parameter |-> analyzableHeaders[k],
              filled |-> filledCount,
              empty |-> totalRows - filledCount,
              percentage |-> Percentage(filledCount, totalRows)]]

\* Longest data sheet, in rows.
MaxFillRows == 2

H_Width == S(<<"W","i","d","t","h">>)
H_Height == S(<<"H","e","i","g","h","t">>)
H_ElementId == S(<<"E","l","e","m","e","n","t"," ","I","D">>)

FillHeaders == <<H_SourceFile, H_Width, H_ElementId, H_Height>>

\* Rows of a data sheet: the same source file with and without blanks
\* around it, an empty and a 0 source-file cell; parameter cells holding
\* 0, a blank, a text, nothing, a number.
FillRows ==
  {SheetRow(FillHeaders, <<sf, width, Num(7), height>>) :
     sf \in {Str(S(<<"a",".","r","v","t">>)), Str(S(<<" ","a",".","r","v","t"," ">>)), Str(<<>>), Num(0)},
     width \in {Num(0), Str(S(<<" ">>)), Str(S(<<"x">>))},
     height \in {Str(<<>>), Num(5)}}

\* Rows of a sheet without a source-file column.
BareRows ==
  {SheetRow(<<H_Width>>, <<width>>) : width \in {Str(S(<<"x">>)), Str(<<>>)}}

FillSheets == SeqsUpTo(FillRows, MaxFillRows) \cup SeqsUpTo(BareRows, MaxFillRows)

InitFill ==
  /\ fillJson = NULL
  /\ fillSummary = NULL
  /\ fillSources = NULL
  /\ fillError = NULL

\* handleAnalyze with no LOIN file selected: the two summaries of the data
\* sheet, or the error of an empty sheet or a missing source-file column.
AnalyzeCompletion ==
  \E jsonData \in FillSheets :
    LET allHeaders == HeadersOf(jsonData)
        analyzableHeaders == SelectSeq(allHeaders, NotExcluded)
        sourceFileHeader ==
          FindHeader(allHeaders, {x \in Range(allHeaders) : IsSourceFileHeader(x)})
    IN  /\ fillJson = NULL
        /\ fillJson' = [rows |-> jsonData]
        /\ IF jsonData = <<>>
           THEN /\ fillError' = Str(S(<<"T","h","e"," ","s","e","l","e","c","t",
                                     "e","d"," ","d","a","t","a"," ","f","i",
                                     "l","e"," ","i","s"," ","e","m","p","t",
                                     "y",".">>))
                /\ fillSummary' = NULL
                /\ fillSources' = NULL
           ELSE IF sourceFileHeader = NoHeader
           THEN /\ fillError' = Str(S(<<"A"," ","\"","S","o","u","r","c","e"," ",
                                     "F","i","l","e","\""," ","o","r"," ","\"",
                                     "F","i","l","e"," ","N","a","m","e","\"",
                                     " ","c","o","l","u","m","n"," ","i","s",
                                     " ","r","e","q","u","i","r","e","d"," ",
                                     "i","n"," ","t","h","e"," ","M","o","d",
                                     "e","l"," ","D","a","t","a"," ","F","i",
                                     "l","e",".">>))
                /\ fillSummary' = NULL
                /\ fillSources' = NULL
           ELSE /\ fillError' = NULL
                /\ fillSources' =
                     [items |-> PerSourceSummary(jsonData, sourceFileHeader,
                                                 analyzableHeaders)]
                /\ fillSummary' =
                     [items |-> ParameterSummary(jsonData, analyzableHeaders)]
        /\ UNCHANGED notFillVars

NextFill == AnalyzeCompletion

\* ------------------------------------------------------------------------
\* Clash analysis (ClashAnalysisPage.analyzeFile)
\* ------------------------------------------------------------------------

\* normalizeHeader(h): h.toLowerCase().trim().replace(/[^a-z0-9]/g, '')
normalizeHeader(h) == SelectSeq(Trim(ToLowerCase(h)), IsLowerAlnum)

\* getHeader(keyStr)
getHeader(headers, keyStr) ==
  FindHeader(headers, {h \in Range(headers) : normalizeHeader(h) = keyStr})

\* extractDiscipline(val); split always gives at least one part.
extractDiscipline(val) ==
  IF val = <<>> THEN S(<<"U","N","K","N","O","W","N">>)
  ELSE ToUpperCase(Trim(SplitChar(val, 45)[1]))

\* The value of a string of decimal digits.
RECURSIVE DigitsValue(_)
DigitsValue(s) ==
  IF s = <<>> THEN 0
  ELSE 10 * DigitsValue(SubSeq(s, 1, Len(s) - 1)) + (s[Len(s)] - 48)

\* Number(v) for the cells of the model: numbers, booleans, digit strings.
ToNumber(v) ==
  CASE v.t = "number" -> v.n
    [] v.t = "boolean" -> v.n
    [] v.t = "string" /\ (\A k \in DOMAIN v.s : v.s[k] \in 48..57) ->
         DigitsValue(v.s)

\* Order of the default Array.prototype.sort on strings: by code units.
RECURSIVE CodeUnitLess(_, _)
CodeUnitLess(s, t) ==
  IF t = <<>> THEN FALSE
  ELSE IF s = <<>> THEN TRUE
  ELSE IF Head(s) # Head(t) THEN Head(s) < Head(t)
  ELSE CodeUnitLess(Tail(s), Tail(t))

PairUnsorted(discA, discB) == discA \o S(<<" ","-"," ">>) \o discB

\* [discA, discB].sort().join(' - ')
DisciplinePair(discA, discB) ==
  IF CodeUnitLess(discB, discA)
  THEN discB \o S(<<" ","-"," ">>) \o discA
  ELSE discA \o S(<<" ","-"," ">>) \o discB

\* Array.from(disciplinesSet).sort()
RECURSIVE SortCodeUnits(_)
SortCodeUnits(set) ==
  IF set = {} THEN <<>>
  ELSE LET first == CHOOSE x \in set : \A y \in set \ {x} : CodeUnitLess(x, y)
       IN  <<first>> \o SortCodeUnits(set \ {first})

\* The headers analyzeFile looks up.
ClashHeaders(headers) ==
  [name |-> getHeader(headers, S(<<"n","a","m","e">>)),
   status |-> getHeader(headers, S(<<"s","t","a","t","u","s">>)),
   clashes |-> getHeader(headers, S(<<"c","l","a","s","h","e","s">>)),
   selA |-> getHeader(headers, S(<<"s","e","l","e","c","t","i","o","n","a">>)),
   selB |-> getHeader(headers, S(<<"s","e","l","e","c","t","i","o","n","b">>)),
   new |-> getHeader(headers, S(<<"n","e","w">>)),
   active |-> getHeader(headers, S(<<"a","c","t","i","v","e">>)),
   reviewed |-> getHeader(headers, S(<<"r","e","v","i","e","w","e","d">>)),
   approved |-> getHeader(headers, S(<<"a","p","p","r","o","v","e","d">>)),
   resolved |-> getHeader(headers, S(<<"r","e","s","o","l","v","e","d">>))]

\* valNew .. valResolved: the explicit column when the sheet has it, else
\* the row's total when the status names the counter.
StatusValue(h, row, status, word, numClashes) ==
  IF h # NoHeader THEN ToNumber(OrValue(row.cells[h], Num(0)))
  ELSE IF ToLowerCase(status) = word THEN numClashes
  ELSE 0

SelectionCell(h, row) ==
  IF h # NoHeader
  THEN JsString(OrValue(row.cells[h], Str(S(<<"U","n","k","n","o","w","n">>))))
  ELSE S(<<"U","n","k","n","o","w","n">>)

\* The ClashRow pushed for a row whose name is not empty.
ClashRowOf(H, row) ==
  LET status == JsString(OrValue(row.cells[H.status], Str(S(<<"A","c","t","i","v","e">>))))
      numClashes == ToNumber(OrValue(row.cells[H.clashes], Num(0)))
      selA == SelectionCell(H.selA, row)
      selB == SelectionCell(H.selB, row)
      discA == extractDiscipline(selA)
      discB == extractDiscipline(selB)
  IN  [name |-> JsString(OrEmpty(row.cells[H.name])),
       status |-> status,
       clashes |-> numClashes,
       new |-> StatusValue(H.new, row, status, S(<<"n","e","w">>), numClashes),
       active |-> StatusValue(H.active, row, status, S(<<"a","c","t","i","v","e">>), numClashes),
       reviewed |-> StatusValue(H.reviewed, row, status,
                                S(<<"r","e","v","i","e","w","e","d">>), numClashes),
       approved |-> StatusValue(H.approved, row, status,
                                S(<<"a","p","p","r","o","v","e","d">>), numClashes),
       resolved |-> StatusValue(H.resolved, row, status,
                                S(<<"r","e","s","o","l","v","e","d">>), numClashes),
       selectionA |-> selA,
       selectionB |-> selB,
       disciplinePair |-> DisciplinePair(discA, discB),
       disciplineA |-> discA,
       disciplineB |-> discB]

NoClashData ==
  [rows |-> <<>>,
   totalClashes |-> 0,
   statusCounts |-> [New |-> 0, Active |-> 0, Reviewed |-> 0, Approved |-> 0,
                     Resolved |-> 0],
   disciplinePairCounts |-> [k \in {} |-> 0],
   disciplinesSet |-> {}]

\* One step of json.forEach: the accumulators after a row.
AddClashRow(acc, H, row) ==
  IF JsString(OrEmpty(row.cells[H.name])) = <<>> THEN acc
  ELSE LET r == ClashRowOf(H, row)
           counts == acc.statusCounts
           pairs == acc.disciplinePairCounts
       IN  [rows |-> Append(acc.rows, r),
            totalClashes |-> acc.totalClashes + r.clashes,
            statusCounts |->
              [New |-> counts.New + r.new,
               Active |-> counts.Active + r.active,
               Reviewed |-> counts.Reviewed + r.reviewed,
               Approved |-> counts.Approved + r.approved,
               Resolved |-> counts.Resolved + r.resolved],
            disciplinePairCounts |->
              [k \in DOMAIN pairs \cup {r.disciplinePair} |->
                 IF k = r.disciplinePair
                 THEN (IF k \in DOMAIN pairs THEN pairs[k] ELSE 0) + r.clashes
                 ELSE pairs[k]],
            disciplinesSet |->
              acc.disciplinesSet \cup {r.disciplineA, r.disciplineB}]

RECURSIVE AccumulateClashes(_, _)
AccumulateClashes(H, json) ==
  IF json = <<>> THEN NoClashData
  ELSE AddClashRow(AccumulateClashes(H, SubSeq(json, 1, Len(json) - 1)), H,
                   json[Len(json)])

\* What reader.onload leaves in clashData and error for a sheet read while
\* clashData is null.
ClashOutcome(json) ==
  LET H == ClashHeaders(HeadersOf(json))
      acc == AccumulateClashes(H, json)
  IN  IF json = <<>>
      THEN [data |-> NULL,
            error |-> Str(S(<<"F","i","l","e"," ","a","p","p","e","a","r",
                                 "s"," ","t","o"," ","b","e"," ","e","m","p",
                                 "t","y",".">>))]
      ELSE IF H.name = NoHeader \/ H.status = NoHeader \/ H.clashes = NoHeader
      THEN [data |-> NULL,
            error |-> Str(S(<<"M","i","s","s","i","n","g"," ","r","e","q",
                                 "u","i","r","e","d"," ","c","o","l","u","m",
                                 "n","s","."," ","E","n","s","u","r","e"," ",
                                 "'","N","a","m","e","'",","," ","'","S","t",
                                 "a","t","u","s","'",","," ","a","n","d"," ",
                                 "'","C","l","a","s","h","e","s","'"," ","c",
                                 "o","l","u","m","n","s"," ","e","x","i","s",
                                 "t",".">>))]
      ELSE [data |-> [rows |-> acc.rows,
                      totalClashes |-> acc.totalClashes,
                      statusCounts |-> acc.statusCounts,
                      disciplinePairCounts |-> acc.disciplinePairCounts,
                      uniqueDisciplines |-> SortCodeUnits(acc.disciplinesSet)],
            error |-> NULL]

\* Longest clash sheet, in rows.
MaxClashRows == 2

FullClashHeaders ==
  <<S(<<"N","a","m","e">>),
    S(<<"S","t","a","t","u","s">>),
    S(<<"C","l","a","s","h","e","s">>),
    S(<<"S","e","l","e","c","t","i","o","n"," ","A">>),
    S(<<"S","e","l","e","c","t","i","o","n"," ","B">>)>>
PlainClashHeaders ==
  <<S(<<"N","a","m","e">>),
    S(<<"S","t","a","t","u","s">>),
    S(<<"C","l","a","s","h","e","s">>)>>
CountedClashHeaders ==
  <<S(<<"N","a","m","e">>),
    S(<<"S","t","a","t","u","s">>),
    S(<<"C","l","a","s","h","e","s">>),
    S(<<"N","e","w">>),
    S(<<"A","c","t","i","v","e">>),
    S(<<"R","e","v","i","e","w","e","d">>),
    S(<<"A","p","p","r","o","v","e","d">>),
    S(<<"R","e","s","o","l","v","e","d">>)>>
ShortClashHeaders ==
  <<S(<<"N","a","m","e">>),
    S(<<"C","l","a","s","h","e","s">>)>>

\* Rows of an export with both selection columns: the same two disciplines
\* in either order, a status outside the five, empty status, selection and
\* name cells (0 with defval 0), selections that start with a hyphen or are
\* blank.
FullClashRows ==
  {SheetRow(FullClashHeaders, cells) : cells \in {
   <<Str(S(<<"T","1">>)), Str(S(<<"N","e","w">>)), Num(3), Str(S(<<"A","R","C","H","-","W","a","l","l","s">>)), Str(S(<<"S","T","R","-","B","e","a","m","s">>))>>,
   <<Str(S(<<"T","2">>)), Str(S(<<"a","c","t","i","v","e">>)), Num(2), Str(S(<<"S","T","R","-","B","e","a","m","s">>)), Str(S(<<"A","R","C","H","-","W","a","l","l","s">>))>>,
   <<Str(S(<<"T","3">>)), Str(S(<<"C","l","o","s","e","d">>)), Num(4), Str(S(<<" ","a","r","c","h"," ","-","x">>)), Str(S(<<"M","E","P">>))>>,
   <<Str(S(<<"T","4">>)), Num(0), Num(1), Num(0), Str(S(<<"S","T","R","-","B","e","a","m","s">>))>>,
   <<Num(0), Str(S(<<"N","e","w">>)), Num(5), Str(S(<<"A","R","C","H","-","W","a","l","l","s">>)), Str(S(<<"S","T","R","-","B","e","a","m","s">>))>>,
   <<Str(S(<<"T","6">>)), Str(S(<<"R","e","s","o","l","v","e","d">>)), Num(0), Str(S(<<"-","A","R","C","H">>)), Str(S(<<"S","T","R","-","B","e","a","m","s">>))>>,
   <<Str(S(<<"T","7">>)), Str(S(<<"R","E","V","I","E","W","E","D">>)), Num(2), Str(S(<<" ">>)), Str(S(<<"A","R","C","H">>))>>,
   <<Str(S(<<"T","9">>)), Str(S(<<"n","e","w"," ">>)), Num(2), Str(S(<<"M","E","P","-","D","u","c","t">>)), Str(S(<<"A","R","C","H"," ","-"," ","W","a","l","l","s">>))>>,
   <<Str(S(<<"T","8">>)), Str(S(<<"A","p","p","r","o","v","e","d">>)), Num(1), Str(S(<<"A","R","C","H","-","W","a","l","l","s">>)), Str(S(<<"A","R","C","H","-","D","o","o","r","s">>))>>}}

PlainClashRows ==
  {SheetRow(PlainClashHeaders, cells) : cells \in {
   <<Str(S(<<"T","1">>)), Str(S(<<"N","e","w">>)), Num(3)>>,
   <<Str(S(<<"T","2">>)), Str(S(<<"C","l","o","s","e","d">>)), Num(2)>>,
   <<Num(0), Str(S(<<"N","e","w">>)), Num(1)>>}}

CountedClashRows ==
  {SheetRow(CountedClashHeaders, cells) : cells \in {
   <<Str(S(<<"T","1">>)), Str(S(<<"A","c","t","i","v","e">>)), Num(5), Num(1), Num(2), Num(0), Num(1), Num(1)>>,
   <<Str(S(<<"T","2">>)), Str(S(<<"N","e","w">>)), Num(3), Num(3), Num(0), Num(0), Num(0), Num(0)>>}}

ShortClashRows ==
  {SheetRow(ShortClashHeaders, cells) : cells \in {
   <<Str(S(<<"T","1">>)), Num(3)>>}}

ClashSheets ==
  SeqsUpTo(FullClashRows, MaxClashRows) \cup SeqsUpTo(PlainClashRows, MaxClashRows)
    \cup SeqsUpTo(CountedClashRows, MaxClashRows)
    \cup SeqsUpTo(ShortClashRows, MaxClashRows)

InitClash ==
  /\ clashJson = NULL
  /\ clashData = NULL
  /\ clashError = NULL

\* reader.onload of analyzeFile for a file chosen on a fresh page.
ClashSheetLoaded ==
  \E json \in ClashSheets :
    /\ clashJson = NULL
    /\ clashJson' = [rows |-> json]
    /\ clashData' = ClashOutcome(json).data
    /\ clashError' = ClashOutcome(json).error
    /\ UNCHANGED notClashVars

NextClash == ClashSheetLoaded

\* ------------------------------------------------------------------------
\* Claims about the reconciler
\* ------------------------------------------------------------------------

ResultsOf(result) == {result.items[i] : i \in DOMAIN result.items}

\* C1: every emitted (base name, format) result, with r its MIDP count and a
\* its ACC count, is missing_in_acc iff r > 0 and a = 0, extra_in_acc iff
\* r = 0 and a > 0, matched iff r = a and both > 0, count_mismatch iff both
\* > 0 and r # a; no result has r = 0 and a = 0.
C1_FourWayClassification ==
  comparisonResult # NULL =>
    \A res \in ResultsOf(comparisonResult) :
      LET r == res.midpCount
          a == res.accCount
      IN  /\ res.status = "missing_in_acc" <=> (r > 0 /\ a = 0)
          /\ res.status = "extra_in_acc" <=> (r = 0 /\ a > 0)
          /\ res.status = "matched" <=> (r = a /\ r > 0 /\ a > 0)
          /\ res.status = "count_mismatch" <=> (r > 0 /\ a > 0 /\ r # a)
          /\ ~(r = 0 /\ a = 0)

\* A comparison holding a count mismatch next to a pair only one side has.
C1_Witness ==
  /\ comparisonResult # NULL
  /\ \E res \in ResultsOf(comparisonResult) : res.status = "count_mismatch"
  /\ \E res \in ResultsOf(comparisonResult) :
       res.status \in {"missing_in_acc", "extra_in_acc"}

\* The (lower-case base name, format) pairs a manifest map holds.
PairsOf(map) ==
  UNION {{<<key, format>> : format \in DOMAIN map[key].formatCounts}
           : key \in DOMAIN map}

\* The pair a result stands for.
PairOfResult(res) == <<ToLowerCase(res.baseName), ToLowerCase(res.format)>>

OnePerPair(midpMap, accMap, result) ==
  LET pairs == PairsOf(midpMap) \cup PairsOf(accMap)
  IN  /\ Len(result.items) = Cardinality(pairs)
      /\ \A pair \in pairs :
           Cardinality({i \in DOMAIN result.items :
                          PairOfResult(result.items[i]) = pair}) = 1

\* C2: the results a comparison stores are as many as the distinct
\* (case-insensitive base name, format) pairs of the two manifests it was
\* computed from, and every such pair appears in exactly one result.
C2_OneResultPerPair ==
  [][\A timer \in compareTimers :
       (compareTimers' = compareTimers \ {timer} /\ comparisonResult' # NULL)
         => OnePerPair(timer.midpMap, timer.accMap, comparisonResult')]_vars

\* A comparison of two manifests that spell one base name differently and
\* share only some of their pairs.
C2_Witness ==
  /\ comparisonResult # NULL
  /\ Len(comparisonResult.items) >= 3
  /\ \E res \in ResultsOf(comparisonResult) : res.midpCount > 0 /\ res.accCount > 0
  /\ \E res \in ResultsOf(comparisonResult) : res.midpCount = 0
  /\ midpData.data # accData.data

\* The sheets of the model next to the map the uploader builds from each.
ManifestReads ==
  {[rows |-> rows, data |-> BuildColumnData(rows)] : rows \in ManifestSheets}

\* The rows of a sheet that share the base name key, case ignored.
RowsNamed(rows, key) ==
  {i \in DOMAIN rows :
     /\ RowBaseName(rows[i]) # <<>>
     /\ ToLowerCase(RowBaseName(rows[i])) = key}

\* The text of the milestone cell of a row, empty when the row has none.
MilestoneCell(row, m) ==
  IF m \in DOMAIN row.ms THEN ToLowerCase(Trim(JsString(row.ms[m]))) ELSE <<>>

NotTagging ==
  {S(<<"n","o">>), S(<<"f","a","l","s","e">>), S(<<"n","/","a">>), S(<<"-">>),
   S(<<"0">>), S(<<"n","a","n">>), <<>>}

\* The tags the rows of one side record for a base name.
SideTags(rows, key) ==
  {m \in MILESTONES :
     \E i \in RowsNamed(rows, key) : MilestoneCell(rows[i], m) \notin NotTagging}

\* The base name as the first row of a side that has it spells it.
SideName(rows, key) ==
  RowBaseName(rows[CHOOSE i \in RowsNamed(rows, key) :
                     \A j \in RowsNamed(rows, key) : i <= j])

\* The map of a side holds, for every base name of its rows and no other,
\* the spelling of the first row and the tags of all rows of that name.
MapFollowsRows(rows, data) ==
  /\ DOMAIN data = {ToLowerCase(RowBaseName(rows[i])) :
                      i \in {k \in DOMAIN rows : RowBaseName(rows[k]) # <<>>}}
  /\ \A key \in DOMAIN data :
       /\ data[key].originalCase = SideName(rows, key)
       /\ data[key].milestones = SideTags(rows, key)

\* Every sheet of the model is read into a map that follows its rows.
ReadsFollowRows ==
  \A read \in ManifestReads : MapFollowsRows(read.rows, read.data)

NameAndTagsFrom(midpMap, accMap, result) ==
  \A res \in ResultsOf(result) :
    LET key == ToLowerCase(res.baseName)
    IN  /\ res.baseName = IF key \in DOMAIN midpMap
                          THEN midpMap[key].originalCase
                          ELSE accMap[key].originalCase
        /\ res.milestones =
             (IF key \in DOMAIN midpMap THEN midpMap[key].milestones ELSE {})
               \cup (IF key \in DOMAIN accMap THEN accMap[key].milestones ELSE {})

\* C20: every result of a comparison carries the base name as the MIDP
\* sheet spells it when that sheet has the name and as the ACC sheet spells
\* it otherwise, and its milestones are exactly the tags the rows of that
\* base name record on either sheet, a row recording a tag iff its
\* milestone cell is none of no, false, n/a, -, 0, nan and empty.
C20_NameAndMilestonesOfBothSides ==
  [][\A timer \in compareTimers :
       (compareTimers' = compareTimers \ {timer} /\ comparisonResult' # NULL)
         => /\ ReadsFollowRows
            /\ \E read \in ManifestReads : read.data = timer.midpMap
            /\ \E read \in ManifestReads : read.data = timer.accMap
            /\ NameAndTagsFrom(timer.midpMap, timer.accMap,
                               comparisonResult')]_vars

\* A comparison with a base name the two sheets spell differently, tagged on
\* the ACC sheet only, next to a base name only the ACC sheet has.
C20_Witness ==
  /\ comparisonResult # NULL
  /\ midpData # NULL /\ accData # NULL
  /\ \E res \in ResultsOf(comparisonResult) :
       LET key == ToLowerCase(res.baseName)
       IN  /\ key \in DOMAIN midpData.data /\ key \in DOMAIN accData.data
           /\ midpData.data[key].originalCase # accData.data[key].originalCase
           /\ res.baseName = midpData.data[key].originalCase
           /\ midpData.data[key].milestones = {}
           /\ res.milestones # {}
  /\ \E res \in ResultsOf(comparisonResult) :
       /\ ToLowerCase(res.baseName) \notin DOMAIN midpData.data
       /\ res.baseName = accData.data[ToLowerCase(res.baseName)].originalCase

\* The rows of a sheet that have the base name key and the format f.
RowsOfFormat(rows, key, f) ==
  {i \in RowsNamed(rows, key) : RowExtension(rows[i]) = f}

\* Reading a sheet counts every named row, with or without a format, and
\* counts per base name the rows of each non-empty format and nothing else.
CountsFollowRows(rows, parsed) ==
  /\ parsed.totalRows =
       Cardinality({i \in DOMAIN rows : RowBaseName(rows[i]) # <<>>})
  /\ \A key \in DOMAIN parsed.data :
       LET counts == parsed.data[key].formatCounts
       IN  /\ DOMAIN counts =
                {RowExtension(rows[i]) : i \in RowsNamed(rows, key)} \ {<<>>}
           /\ \A f \in DOMAIN counts :
                counts[f] = Cardinality(RowsOfFormat(rows, key, f))

ReadsCountFormats ==
  \A rows \in ManifestSheets : CountsFollowRows(rows, ParseManifest(rows))

\* Base names none of whose rows, on either side, has a format.
Formatless(midpMap, accMap) ==
  {key \in DOMAIN midpMap \cup DOMAIN accMap :
     /\ key \in DOMAIN midpMap => DOMAIN midpMap[key].formatCounts = {}
     /\ key \in DOMAIN accMap => DOMAIN accMap[key].formatCounts = {}}

SummaryAddsUp(s) ==
  s.matched + s.count_mismatch + s.missing_in_acc + s.extra_in_acc = s.all

\* C29: a manifest row with a base name and an empty format is counted in
\* totalRows and records its milestone tags but adds no format count; a base
\* name all of whose rows on both sides have an empty format appears in no
\* result of the comparison; and the four status counts of the summary add
\* up to the number of results.
C29_EmptyFormatRowsAndSummary ==
  [][\A timer \in compareTimers :
       (compareTimers' = compareTimers \ {timer} /\ comparisonResult' # NULL)
         => /\ ReadsCountFormats
            /\ ReadsFollowRows
            /\ \A res \in ResultsOf(comparisonResult') :
                 ToLowerCase(res.baseName)
                   \notin Formatless(timer.midpMap, timer.accMap)
            /\ midpSummary'.all = Len(comparisonResult'.items)
            /\ SummaryAddsUp(midpSummary')]_vars

\* A comparison with results shown while one loaded side has a base name
\* whose only row has no format and carries a milestone tag.
C29_Witness ==
  /\ comparisonResult # NULL /\ compareTimers = {}
  /\ midpData # NULL /\ accData # NULL
  /\ comparisonResult.items = CompareManifests(midpData.data, accData.data)
  /\ midpSummary.all > 0
  /\ \E key \in Formatless(midpData.data, accData.data) :
       /\ key \in DOMAIN accData.data
       /\ accData.data[key].milestones # {}
       /\ accData.totalRows > 0
       /\ \A res \in ResultsOf(comparisonResult) : ToLowerCase(res.baseName) # key

\* C27: a stored comparison is the comparison of the two manifests loaded
\* at that moment, under every interleaving of Compare clicks, the deferred
\* computation and uploads or removals of a manifest.
C27_ResultOfLoadedManifests ==
  comparisonResult # NULL =>
    /\ midpData # NULL
    /\ accData # NULL
    /\ comparisonResult.items = CompareManifests(midpData.data, accData.data)

\* C28: whenever an audit runs, the rows it audits are the rows parsed from
\* the spreadsheet shown as selected at that moment, under every interleaving
\* of file selections, reads that end well or badly, and clicks on Run.
C28_AuditsRowsOfSelectedFile ==
  selAudited # NULL =>
    \E read \in SheetReads :
      /\ read.json = selAudited.file.json
      /\ read.rows = selAudited.rows

\* The text an analysis of the listed PDFs publishes.
TextOfListed == cleanText(Str(CombinedText(NewDocuments(anFiles))))

AnalysisCleared ==
  anPdfText = NULL /\ anDocuments = <<>> /\ anAnalysisResult = NULL

\* C30: a pdfText that is not null is the text extracted from exactly the
\* PDFs listed on the analysis page, documents is non-empty iff pdfText is
\* not null, and every change of the file list and every failed analysis
\* leaves pdfText, documents and analysisResult cleared.
C30_PdfTextOfListedFiles ==
  [][/\ anPdfText' # NULL =>
          /\ anPdfText' = TextOfListed'
          /\ anDocuments' = NewDocuments(anFiles')
     /\ anDocuments' # <<>> <=> anPdfText' # NULL
     /\ anFiles' # anFiles => AnalysisCleared'
     /\ (anRuns' # anRuns /\ anIsLoading /\ ~anIsLoading' /\ anError' # NULL)
          => AnalysisCleared']_vars

\* ------------------------------------------------------------------------
\* Claims about the vocabulary and the file name check
\* ------------------------------------------------------------------------

\* The maximal runs of s free of the characters IsSep holds for.
Runs(s, IsSep(_)) ==
  {SubSeq(s, i, j) : <<i, j>> \in
     {p \in (DOMAIN s) \X (DOMAIN s) :
        /\ p[1] <= p[2]
        /\ \A k \in p[1]..p[2] : ~IsSep(s[k])
        /\ (p[1] = 1 \/ IsSep(s[p[1] - 1]))
        /\ (p[2] = Len(s) \/ IsSep(s[p[2] + 1]))}}

IsHyphen(c) == c = 45

\* The token's upper-cased, bracket-stripped form.
TokenForm(w) == [k \in DOMAIN SelectSeq(w, NotBracket) |->
                   UpperChar(SelectSeq(w, NotBracket)[k])]

ExampleVocabulary ==
  {S(<<"A","R","C","H","-","L","0","1","-","0","0","1">>), S(<<"A","R","C","H">>),
   S(<<"L","0","1">>), S(<<"0","0","1">>), S(<<"R","E","V">>)}

NonEmptyRows(sheet) ==
  SelectSeq(sheet, LAMBDA row : Trim(JsString(row.cells[H_FileName])) # <<>>)

\* The name a cell holds, its extension removed.
NameWithoutExtension(cell) ==
  LET name == Trim(JsString(cell))
      ext == {k \in DOMAIN name :
                /\ name[k] = 46 /\ k < Len(name)
                /\ \A m \in (k + 1)..Len(name) : name[m] \notin {46, 47}}
  IN  IF ext = {} THEN name ELSE SubSeq(name, 1, (CHOOSE k \in ext : TRUE) - 1)

Delimiter(base) ==
  IF \E k \in DOMAIN base : base[k] = 45 THEN 45
  ELSE IF \E k \in DOMAIN base : base[k] = 95 THEN 95
  ELSE -1

\* Start of the last segment of base.
LastSegmentStart(base) ==
  LET at == {k \in DOMAIN base : base[k] = Delimiter(base)}
  IN  IF at = {} THEN 1 ELSE (CHOOSE k \in at : \A m \in at : m <= k) + 1

\* The segments of base before the last one.
OtherSegments(base) ==
  LET d == Delimiter(base)
      cut == {0} \cup {k \in DOMAIN base : base[k] = d}
  IN  {SubSeq(base, a + 1, b - 1) : <<a, b>> \in
         {p \in cut \X cut :
            p[1] < p[2] /\ \A k \in cut : ~(p[1] < k /\ k < p[2])}}

BreaksNamingRule(cell, vocabulary) ==
  LET base == NameWithoutExtension(cell)
      last == SubSeq(base, LastSegmentStart(base), Len(base))
  IN  \/ ~(Len(last) = 6 /\ \A k \in DOMAIN last : last[k] \in 48..57)
      \/ \E seg \in OtherSegments(base) :
           [k \in DOMAIN seg |-> UpperChar(seg[k])] \notin vocabulary

\* C3: the file name check returns exactly one verdict per row whose file
\* name cell is non-empty, Invalid iff (extension stripped, split on '-' else
\* '_') the last segment is not exactly 6 digits or another segment's upper
\* case form is not in the vocabulary; against "ARCH-L01-001 Rev A",
\* "ARCH-L01-000123.pdf" is Valid and "XYZ-99.pdf" is Invalid, its reasoning
\* naming the sequence segment '99'.
C3_OneVerdictPerNamedRow ==
  fnResult # NULL =>
    LET rows == NonEmptyRows(fnSheet.rows)
        verdicts == fnResult.items
    IN  /\ Len(verdicts) = Len(rows)
        /\ \A i \in DOMAIN verdicts :
             i \in DOMAIN rows =>
               LET cell == rows[i].cells[H_FileName]
               IN  /\ verdicts[i].originalRecord[H_FileName] = cell
                   /\ verdicts[i].status \in {"Valid", "Invalid"}
                   /\ verdicts[i].status = "Invalid"
                        <=> BreaksNamingRule(cell, fnTokens)
                   /\ (fnText.s = ExampleRules
                       /\ cell = Str(S(<<"A","R","C","H","-","L","0","1","-",
                                         "0","0","0","1","2","3",".","p","d","f">>)))
                        => verdicts[i].status = "Valid"
                   /\ (fnText.s = ExampleRules
                       /\ cell = Str(S(<<"X","Y","Z","-","9","9",".","p","d","f">>)))
                        => /\ verdicts[i].status = "Invalid"
                           /\ verdicts[i].reasoning.sequenceSegment
                                = <<S(<<"9","9">>)>>

\* ------------------------------------------------------------------------
\* Claims about the audit page
\* ------------------------------------------------------------------------

\* What one run computes by itself: the value of every selected check whose
\* column is among the rows, and nothing for any other check.
ComputedByRun(sourceText, excelData, selectedChecks) ==
  LET run == CHOOSE r \in AuditRuns :
               r.sourceText = sourceText /\ r.excelData = excelData
  IN  [key \in CheckKeys |->
         IF selectedChecks[key] /\ run.assigned[key].found
         THEN run.assigned[key].value
         ELSE NULL]

\* C6: whenever an audit run changes the results held, the results are
\* exactly what the run computes from the current source text, rows and
\* check selection; a check that is deselected, or whose column the rows
\* lack, has no result left from an earlier run.
C6_ResultsAreThisRunsOnly ==
  [][qaqcResults' # qaqcResults =>
       qaqcResults' = ComputedByRun(qaqcPdfText.s, qaqcExcelData.rows,
                                    qaqcSelectedChecks)]_vars

\* C11: an audit triggered on a sheet of zero rows sets an error and leaves
\* no result, new or old, in place.
C11_EmptyInputSetsError ==
  (qaqcAudited /\ qaqcExcelData.rows = <<>>) =>
    /\ qaqcError # NULL
    /\ qaqcResults = NoResults

\* The selected checks whose column the rows of the last audit lack.
MissingColumns ==
  {key \in CheckKeys :
     /\ qaqcSelectedChecks[key]
     /\ HeaderFor(key, HeadersOf(qaqcExcelData.rows)) = NoHeader}

\* C12: after an audit of rows that lack the column of a selected check an
\* error naming the column is shown and that check has no result, while
\* every other selected check whose column is present has its result.
C12_MissingColumnNamed ==
  (qaqcAudited /\ qaqcExcelData.rows # <<>> /\ MissingColumns # {}) =>
    /\ qaqcError # NULL
    /\ \A key \in MissingColumns : qaqcResults[key] = NULL
    /\ \A key \in CheckKeys \ MissingColumns :
         qaqcSelectedChecks[key] =>
           qaqcResults[key] = ComputedByRun(qaqcPdfText.s, qaqcExcelData.rows,
                                            qaqcSelectedChecks)[key]

\* ------------------------------------------------------------------------
\* Claims about the separated QA validation
\* ------------------------------------------------------------------------

\* The rows of the sheet read whose file name cell has a non-empty text.
Q2NamedRows ==
  SelectSeq(q2Json.rows, LAMBDA row : FullName(row) # <<>>)

\* C13: whatever the file name cells hold (text, a number, a boolean), a
\* sheet with rows never ends in an error without results: every row with a
\* non-empty file name has its own record, in order, a malformed name being
\* at most a Fail.
C13_NoCellAbortsTheAnalysis ==
  (q2Json # NULL /\ q2Json.rows # <<>>) =>
    /\ q2Error = NULL
    /\ q2Results # NULL
    /\ Len(q2Results.summary) = Len(Q2NamedRows)
    /\ \A i \in DOMAIN Q2NamedRows :
         /\ q2Results.summary[i].fileName = FullName(Q2NamedRows[i])
         /\ q2Results.summary[i].status \in {"Pass", "Fail"}

\* The delimiter the first file name of the sheet calls for, 0 for none.
FirstNameDelimiter ==
  LET first == JsString(FirstFileName(q2Json.rows))
  IN  IF 45 \in Range(first) THEN 45
      ELSE IF 95 \in Range(first) THEN 95
      ELSE 0

\* The segments of a file name and their verdicts against a vocabulary.
SegmentVerdicts(vocabulary, delimiter, fullName) ==
  LET segments == IF delimiter = 0 THEN <<fullName>>
                  ELSE SplitChar(fullName, delimiter)
  IN  [k \in DOMAIN segments |->
         [fileName |-> fullName,
          segmentValue |-> segments[k],
          status |-> IF ToUpperCase(segments[k]) \in vocabulary
                     THEN "Correct" ELSE "Incorrect"]]

\* What the validation owes for the sheet under a vocabulary: the detail
\* entries of every named row, row after row.
RECURSIVE DetailsOwed(_, _, _)
DetailsOwed(vocabulary, delimiter, rows) ==
  IF rows = <<>> THEN <<>>
  ELSE SegmentVerdicts(vocabulary, delimiter, FullName(Head(rows)))
         \o DetailsOwed(vocabulary, delimiter, Tail(rows))

Incorrect(details) == Len(SelectSeq(details, LAMBDA d : d.status = "Incorrect"))

Q2Follows(vocabulary) ==
  /\ q2Results # NULL
  /\ Len(q2Results.summary) = Len(Q2NamedRows)
  /\ [i \in DOMAIN q2Results.detailed |->
        [fileName |-> q2Results.detailed[i].fileName,
         segmentValue |-> q2Results.detailed[i].segmentValue,
         status |-> q2Results.detailed[i].status]]
       = DetailsOwed(vocabulary, FirstNameDelimiter, Q2NamedRows)
  /\ \A i \in DOMAIN Q2NamedRows :
       LET owed == SegmentVerdicts(vocabulary, FirstNameDelimiter,
                                   FullName(Q2NamedRows[i]))
       IN  /\ q2Results.summary[i].fileName = FullName(Q2NamedRows[i])
           /\ q2Results.summary[i].status = "Pass" <=> Incorrect(owed) = 0
           /\ q2Results.summary[i].status \in {"Pass", "Fail"}
           /\ q2Results.summary[i].errorsCount = Incorrect(owed)

\* C25: with a first file name that is text, the separated validation
\* splits every file name on the delimiter of the first one ('-', else
\* '_', else none), gives one summary per named row and one detail per
\* segment, calls a segment Correct iff its upper-case form is in the
\* vocabulary the audit's tokenizer builds from the source text, and a row
\* Pass iff all its segments are Correct, errorsCount counting the
\* Incorrect ones.
C25_SegmentsAgainstAuditVocabulary ==
  (q2Json # NULL /\ q2Json.rows # <<>> /\ ~DelimiterThrows(q2Json.rows)) =>
    Q2Follows(PdfTokens(q2Text.s))

\* ------------------------------------------------------------------------
\* Claims about the checks of one audit run
\* ------------------------------------------------------------------------

\* The text form of a cell, trimmed.
TextForm(v) == Trim(JsString(v))

\* The checks that give one verdict per row.
RowWiseKeys == CheckKeys \ {"levelsGridsPinned"}

ChkColumn == ChkHeader(chkKey)

\* The rows of the sheet whose checked cell has a non-empty text form.
ChkNamedRows ==
  SelectSeq(chkSheet.rows, LAMBDA r : TextForm(r.cells[ChkColumn]) # <<>>)

\* The list the check stored.
ChkItems ==
  IF chkKey = "projectUnits" THEN chkResults[chkKey].details
  ELSE chkResults[chkKey].items

\* A record that stands for the whole column instead of a row.
IsSynthetic(item) == DOMAIN item.originalRecord = {S(<<"C","h","e","c","k">>)}

\* The verdicts the check stored for rows.
ChkVerdicts == SelectSeq(ChkItems, LAMBDA item : ~IsSynthetic(item))

\* A run of a row-wise check on a sheet that has its column.
ChkRowWiseRun ==
  /\ chkSheet # NULL
  /\ chkKey \in RowWiseKeys
  /\ chkSheet.rows # <<>>

\* C14: every row-wise check gives exactly one verdict, in input order, for
\* each row whose cell (text, number or boolean) has a non-empty trimmed
\* text form and none for any other row, the same test in every check.
C14_OneVerdictPerNonEmptyCell ==
  ChkRowWiseRun =>
    /\ Len(ChkVerdicts) = Len(ChkNamedRows)
    /\ \A i \in DOMAIN ChkNamedRows :
         ChkVerdicts[i].originalRecord[ChkColumn] = ChkNamedRows[i].cells[ChkColumn]

\* C16: in the RVT link check every row with a non-empty cell is Valid iff
\* the cell's text, trimmed and lower-cased, is "true", and Invalid otherwise.
C16_PinnedIffTrimmedTrue ==
  (ChkRowWiseRun /\ chkKey = "rvtLinkPinned") =>
    /\ Len(ChkVerdicts) = Len(ChkNamedRows)
    /\ \A i \in DOMAIN ChkNamedRows :
         ChkVerdicts[i].status =
           IF ToLowerCase(TextForm(ChkNamedRows[i].cells[ChkColumn]))
                = S(<<"t","r","u","e">>)
           THEN "Valid" ELSE "Invalid"

\* C17: when the column exists and no row has a non-empty cell, the RVT link
\* check stores exactly one synthetic record, Valid, and the Navisworks
\* check exactly one synthetic record, Invalid; when some row has a
\* non-empty cell neither stores a synthetic record.
C17_SyntheticRecordWhenNothingToCheck ==
  (ChkRowWiseRun /\ chkKey \in {"rvtLinkPinned", "navisworksViewName"}) =>
    IF ChkNamedRows = <<>>
    THEN /\ Len(ChkItems) = 1
         /\ IsSynthetic(ChkItems[1])
         /\ ChkItems[1].status = IF chkKey = "rvtLinkPinned" THEN "Valid"
                                 ELSE "Invalid"
    ELSE /\ Len(ChkItems) = Len(ChkNamedRows)
         /\ \A i \in DOMAIN ChkItems : ~IsSynthetic(ChkItems[i])

\* A Navisworks column of two empty cells got its synthetic Invalid record.
C17_Witness ==
  /\ ChkRowWiseRun
  /\ chkKey = "navisworksViewName"
  /\ Len(chkSheet.rows) = 2
  /\ ChkNamedRows = <<>>
  /\ Len(ChkItems) = 1
  /\ ChkItems[1].status = "Invalid"

\* The places where word occurs in text.
PlacesOf(word, text) ==
  {i \in 1..(Len(text) - Len(word) + 1) :
     SubSeq(text, i, i + Len(word) - 1) = word}

\* How often the words occur in the text, letters compared without case.
WordCount(words, text) ==
  LET count[k \in 0..Len(words)] ==
        IF k = 0 THEN 0
        ELSE count[k - 1] + Cardinality(PlacesOf(words[k], ToLowerCase(text)))
  IN  count[Len(words)]

StandardOfText(text) ==
  IF WordCount(<<S(<<"m","e","t","r","i","c">>),
                 S(<<"m","i","l","l","i","m","e","t","e","r">>),
                 S(<<"m","e","t","e","r">>)>>, text)
       >= WordCount(<<S(<<"i","m","p","e","r","i","a","l">>),
                      S(<<"i","n","c","h">>), S(<<"f","e","e","t">>)>>, text)
  THEN S(<<"M","e","t","r","i","c">>)
  ELSE S(<<"I","m","p","e","r","i","a","l">>)

HoldsStandard(cell) ==
  Includes(ToLowerCase(TextForm(cell)), ToLowerCase(StandardOfText(chkText.s)))

\* C18: the standard is Metric iff metric, millimeter, meter occur in the
\* source text at least as often as imperial, inch, feet (a tie gives
\* Metric), else Imperial; a row with a non-empty units value is Valid iff
\* its value holds the name of the standard, letters compared without case.
C18_UnitsStandardAndVerdicts ==
  (ChkRowWiseRun /\ chkKey = "projectUnits") =>
    /\ chkResults.projectUnits.summary.standardFromDocument
         = StandardOfText(chkText.s)
    /\ \A i \in DOMAIN ChkItems :
         ChkItems[i].status \in {"Valid", "Invalid"}
    /\ LET valid == SelectSeq(ChkItems, LAMBDA item : item.status = "Valid")
           holding == SelectSeq(ChkNamedRows,
                                LAMBDA r : HoldsStandard(r.cells[ChkColumn]))
       IN  /\ Len(valid) = Len(holding)
           /\ \A i \in DOMAIN valid :
                valid[i].originalRecord[ChkColumn] = holding[i].cells[ChkColumn]

\* A units column was checked against a text with as many metric as
\* imperial words: one row Valid, one Invalid.
C18_Witness ==
  /\ ChkRowWiseRun
  /\ chkKey = "projectUnits"
  /\ WordCount(MetricWords, chkText.s) = WordCount(ImperialWords, chkText.s)
  /\ WordCount(MetricWords, chkText.s) > 0
  /\ \E i, j \in DOMAIN ChkItems :
       ChkItems[i].status = "Valid" /\ ChkItems[j].status = "Invalid"

\* Every verdict record the check of the run stored.
ChkAllVerdicts ==
  IF chkKey = "projectUnits" THEN Range(chkResults[chkKey].details)
  ELSE IF chkKey = "levelsGridsPinned"
  THEN Range(chkResults[chkKey].levels) \cup Range(chkResults[chkKey].grids)
  ELSE Range(chkResults[chkKey].items)

\* C22: every verdict record of a check, the synthetic ones included, has
\* one of the statuses Valid, Invalid, Needs Review and a reasoning that is
\* not empty; a verdict of the file name check carries invalidValue iff it
\* is Invalid, and then it is the trimmed file name of the row.
C22_VerdictRecordsWellFormed ==
  (chkSheet # NULL /\ chkResults[chkKey] # NULL) =>
    \A item \in ChkAllVerdicts :
      /\ item.status \in {"Valid", "Invalid", "Needs Review"}
      /\ item.reasoning.text # ""
      /\ chkKey = "fileName" =>
           /\ item.invalidValue # Undefined <=> item.status = "Invalid"
           /\ item.status = "Invalid" =>
                item.invalidValue =
                  Str(Trim(JsString(item.originalRecord[ChkColumn])))
      /\ chkKey # "fileName" => "invalidValue" \notin DOMAIN item

\* The file name check gave a Valid and an Invalid verdict in one run.
C22_Witness ==
  /\ chkSheet # NULL
  /\ chkKey = "fileName"
  /\ chkResults[chkKey] # NULL
  /\ \E item \in ChkAllVerdicts :
       item.status = "Valid" /\ item.invalidValue = Undefined
  /\ \E item \in ChkAllVerdicts :
       item.status = "Invalid" /\ item.invalidValue # Undefined

\* ------------------------------------------------------------------------
\* Claims about the independence of the checks
\* ------------------------------------------------------------------------

\* The rows with the column h alone.
OwnColumn(rows, h) ==
  [i \in DOMAIN rows |-> SheetRow(<<h>>, <<rows[i].cells[h]>>)]

\* What the check named key gives for the text and its own column alone.
OwnResult(key) ==
  LET h == HeaderFor(key, HeadersOf(frSheet.rows))
  IN  CheckResult(key, frText.s, <<h>>, OwnColumn(frSheet.rows, h), h)

ListOf(key, result) ==
  IF key = "projectUnits" THEN result.details ELSE result.items

\* A verdict without the cells its record carries from other columns.
OwnVerdict(key, item) ==
  LET h == HeaderFor(key, HeadersOf(frSheet.rows))
  IN  [status |-> item.status,
       reasoning |-> item.reasoning,
       record |-> [k \in DOMAIN item.originalRecord \ (Range(SheetAHeaders) \ {h})
                     |-> item.originalRecord[k]]]

\* The checks that ran: selected, on a sheet with rows.
FrameRan ==
  IF frSheet = NULL \/ frSheet.rows = <<>> THEN {}
  ELSE {key \in FrameKeys : frSelected[key]}

fileNameCandidates ==
  <<S(<<"f","i","l","e"," ","n","a","m","e">>),
    S(<<"f","i","l","e","n","a","m","e">>),
    S(<<"m","o","d","e","l"," ","n","a","m","e">>)>>

Matches(h, candidate) == NormalizeHeader(h) = NormalizeHeader(candidate)

\* The header the candidates single out: the first header that matches the
\* earliest candidate matching any header.
ColumnByCandidateOrder(headers, candidates) ==
  LET hits == {i \in DOMAIN candidates :
                 \E j \in DOMAIN headers : Matches(headers[j], candidates[i])}
  IN  IF hits = {} THEN NoHeader
      ELSE LET first == CHOOSE i \in hits : \A k \in hits : i <= k
           IN  headers[CHOOSE j \in DOMAIN headers :
                         /\ Matches(headers[j], candidates[first])
                         /\ \A k \in 1..(j - 1) :
                              ~Matches(headers[k], candidates[first])]

\* C19: the column a lookup uses is the first header whose normalised form
\* (lower-cased, non-alphanumerics removed) equals that of the earliest
\* candidate matching any header, and no column iff no header matches a
\* candidate; for the uploader's name column and the audit's file name
\* column alike.
C19_EarliestCandidateDecides ==
  hdrHeaders # NULL =>
    /\ hdrName = ColumnByCandidateOrder(hdrHeaders.items, nameColumns)
    /\ hdrFileName =
         ColumnByCandidateOrder(hdrHeaders.items, fileNameCandidates)

\* ------------------------------------------------------------------------
\* Claims about the completion counts
\* ------------------------------------------------------------------------

\* The trimmed text form of a cell is not empty.
TextFilled(value) == Trim(JsString(value)) # <<>>

FillSourceHeader ==
  LET headers == HeadersOf(fillJson.rows)
  IN  FindHeader(headers, {x \in Range(headers) : IsSourceFileHeader(x)})

\* The trimmed text of the source-file cell of a row.
SourceText(row) == Trim(JsString(row.cells[FillSourceHeader]))

RECURSIVE SumElements(_)
SumElements(groups) ==
  IF groups = <<>> THEN 0
  ELSE SumElements(SubSeq(groups, 1, Len(groups) - 1))
         + groups[Len(groups)].totalElements

\* C26: a cell is filled iff its trimmed text form is not empty; every
\* analysable column (all but category name, element id, source file, file
\* name) has filled + empty equal to the number of rows; every source-file
\* group has filledCells + emptyCells equal to its rows times the number of
\* analysable columns; the groups are exactly the distinct non-empty
\* trimmed source-file values, so their row counts add up to the number of
\* rows with a non-empty source-file value.
C26_CompletionCountsAddUp ==
  fillSummary # NULL =>
    LET rows == fillJson.rows
        analysable == SelectSeq(HeadersOf(rows), NotExcluded)
        groups == fillSources.items
        named == {i \in DOMAIN rows : SourceText(rows[i]) # <<>>}
    IN  /\ [k \in DOMAIN fillSummary.items |-> fillSummary.items[k].parameter]
             = analysable
        /\ \A k \in DOMAIN fillSummary.items :
             LET entry == fillSummary.items[k]
             IN  /\ entry.filled =
                      Cardinality({i \in DOMAIN rows :
                                     TextFilled(rows[i].cells[entry.parameter])})
                 /\ entry.filled + entry.empty = Len(rows)
        /\ \A g \in DOMAIN groups :
             LET members == {i \in DOMAIN rows :
                               SourceText(rows[i]) = groups[g].sourceFile}
             IN  /\ groups[g].totalElements = Cardinality(members)
                 /\ groups[g].filledCells =
                      Cardinality({<<i, k>> \in members \X (DOMAIN analysable) :
                                     TextFilled(rows[i].cells[analysable[k]])})
                 /\ groups[g].filledCells + groups[g].emptyCells =
                      groups[g].totalElements * Len(analysable)
        /\ {groups[g].sourceFile : g \in DOMAIN groups} =
             {SourceText(rows[i]) : i \in named}
        /\ Cardinality({groups[g].sourceFile : g \in DOMAIN groups}) = Len(groups)
        /\ SumElements(groups) = Cardinality(named)

\* ------------------------------------------------------------------------
\* Claims about the clash analysis
\* ------------------------------------------------------------------------

RECURSIVE SumClashes(_)
SumClashes(rows) ==
  IF rows = <<>> THEN 0
  ELSE SumClashes(SubSeq(rows, 1, Len(rows) - 1)) + rows[Len(rows)].clashes

StatusWords ==
  {S(<<"n","e","w">>), S(<<"a","c","t","i","v","e">>),
   S(<<"r","e","v","i","e","w","e","d">>),
   S(<<"a","p","p","r","o","v","e","d">>),
   S(<<"r","e","s","o","l","v","e","d">>)}

\* The sheet has none of the columns New, Active, Reviewed, Approved,
\* Resolved.
NoStatusColumns ==
  LET H == ClashHeaders(HeadersOf(clashJson.rows))
  IN  /\ H.new = NoHeader /\ H.active = NoHeader /\ H.reviewed = NoHeader
      /\ H.approved = NoHeader /\ H.resolved = NoHeader

\* C21: without per-status columns every row's clash total goes to exactly
\* one of the five status counters, the one its status names whatever the
\* case, and the five counters add up to the total clash count.
C21_StatusCountsSumToTotal ==
  (clashData # NULL /\ NoStatusColumns) =>
    /\ \A i \in DOMAIN clashData.rows :
         LET r == clashData.rows[i]
         IN  /\ ToLowerCase(r.status) \in StatusWords
             /\ r.new + r.active + r.reviewed + r.approved + r.resolved
                  = r.clashes
    /\ clashData.statusCounts.New + clashData.statusCounts.Active
         + clashData.statusCounts.Reviewed + clashData.statusCounts.Approved
         + clashData.statusCounts.Resolved = clashData.totalClashes

\* The text of s before its first hyphen.
BeforeHyphen(s) ==
  IF \E k \in DOMAIN s : s[k] = 45
  THEN SubSeq(s, 1, (CHOOSE k \in DOMAIN s :
                       s[k] = 45 /\ \A j \in 1..(k - 1) : s[j] # 45) - 1)
  ELSE s

CodeOf(selection) == ToUpperCase(Trim(BeforeHyphen(selection)))

\* The key of two codes: the smaller, " - ", the larger.
KeyOfCodes(a, b) ==
  LET lo == IF CodeUnitLess(b, a) THEN b ELSE a
      hi == IF CodeUnitLess(b, a) THEN a ELSE b
  IN  lo \o S(<<" ","-"," ">>) \o hi

ClashesOfPair(rows, key) ==
  SumClashes(SelectSeq(rows, LAMBDA r : r.disciplinePair = key))

\* C23: the pair key of a row is made of the codes of its two selections
\* (trimmed upper-cased text before the first hyphen) in sorted order; rows
\* naming the same two disciplines in swapped columns share the key, and
\* every pair's count is the sum of the clash totals of the rows with its
\* key.
C23_SortedPairKey ==
  clashData # NULL =>
    /\ \A i \in DOMAIN clashData.rows :
         LET r == clashData.rows[i]
         IN  /\ r.disciplineA = CodeOf(r.selectionA)
             /\ r.disciplineB = CodeOf(r.selectionB)
             /\ r.disciplinePair = KeyOfCodes(CodeOf(r.selectionA),
                                              CodeOf(r.selectionB))
    /\ \A i, j \in DOMAIN clashData.rows :
         LET r == clashData.rows[i]
             q == clashData.rows[j]
         IN  (CodeOf(r.selectionA) = CodeOf(q.selectionB)
                /\ CodeOf(r.selectionB) = CodeOf(q.selectionA))
               => r.disciplinePair = q.disciplinePair
    /\ DOMAIN clashData.disciplinePairCounts =
         {clashData.rows[i].disciplinePair : i \in DOMAIN clashData.rows}
    /\ \A key \in DOMAIN clashData.disciplinePairCounts :
         clashData.disciplinePairCounts[key] =
           ClashesOfPair(clashData.rows, key)

\* Two rows name two different disciplines in swapped columns and their
\* totals stand under one pair.
C23_Witness ==
  /\ clashData # NULL
  /\ Len(clashData.rows) = 2
  /\ clashData.rows[1].disciplineA = clashData.rows[2].disciplineB
  /\ clashData.rows[1].disciplineB = clashData.rows[2].disciplineA
  /\ clashData.rows[1].disciplineA # clashData.rows[1].disciplineB
  /\ DOMAIN clashData.disciplinePairCounts = {clashData.rows[1].disciplinePair}
  /\ clashData.disciplinePairCounts[clashData.rows[1].disciplinePair] =
       clashData.rows[1].clashes + clashData.rows[2].clashes
  /\ clashData.rows[1].clashes > 0 /\ clashData.rows[2].clashes > 0

\* The rows of the sheet whose name cell is filled (an empty cell reads 0).
NamedClashRows ==
  LET nameH == ClashHeaders(HeadersOf(clashJson.rows)).name
  IN  SelectSeq(clashJson.rows,
                LAMBDA row : row.cells[nameH] \notin {Num(0), Str(<<>>)})

\* The selection cell holds nothing a code can be made of: the column is
\* absent, the cell is empty, or the text before the first hyphen is blank.
NoCodeIn(row, h) ==
  \/ h = NoHeader
  \/ row.cells[h] \in {Num(0), Str(<<>>)}
  \/ Trim(BeforeHyphen(JsString(row.cells[h]))) = <<>>

\* C24: every row with a name is among the rows and in the totals whatever
\* its selection cells hold; both its discipline codes are non-empty, and a
\* code is UNKNOWN whenever the selection column is absent, the cell is
\* empty or no code can be made of the cell's text.
C24_EveryNamedRowHasCodes ==
  clashData # NULL =>
    LET H == ClashHeaders(HeadersOf(clashJson.rows))
        named == NamedClashRows
    IN  /\ Len(clashData.rows) = Len(named)
        /\ clashData.totalClashes = SumClashes(clashData.rows)
        /\ \A i \in DOMAIN named :
             LET r == clashData.rows[i]
             IN  /\ r.name = JsString(named[i].cells[H.name])
                 /\ r.clashes = ToNumber(named[i].cells[H.clashes])
                 /\ r.disciplineA # <<>>
                 /\ r.disciplineB # <<>>
                 /\ NoCodeIn(named[i], H.selA) =>
                      r.disciplineA = S(<<"U","N","K","N","O","W","N">>)
                 /\ NoCodeIn(named[i], H.selB) =>
                      r.disciplineB = S(<<"U","N","K","N","O","W","N">>)

\* ------------------------------------------------------------------------
\* Claims about the compliance result
\* ------------------------------------------------------------------------

\* list holds exactly the entries of from that Keep holds for.
ExactlyThose(list, from, Keep(_)) ==
  /\ Range(list) = {x \in Range(from) : Keep(x)}
  /\ Len(list) = Cardinality({i \in DOMAIN from : Keep(from[i])})

\* C7: comparing by trimmed text, case kept: matched is exactly the required
\* parameters found among the analysable columns, missing exactly those not
\* found (the two partition the required list), extra exactly the columns
\* not in the required list, and for a non-empty required list the score is
\* |matched| / |required| x 100, within 0..100.
C7_MatchedMissingExtraScore ==
  compResult # NULL =>
    LET required == compRequired.items
        columns == compColumns.items
        amongColumns(q) == \E c \in Range(columns) : Trim(c) = Trim(q)
        notAmongColumns(q) == ~amongColumns(q)
        notRequired(c) == ~\E q \in Range(required) : Trim(q) = Trim(c)
        score == compResult.complianceScore
    IN  /\ ExactlyThose(compResult.matched, required, amongColumns)
        /\ ExactlyThose(compResult.missing, required, notAmongColumns)
        /\ Range(compResult.matched) \cap Range(compResult.missing) = {}
        /\ Len(compResult.matched) + Len(compResult.missing) = Len(required)
        /\ ExactlyThose(compResult.extra, columns, notRequired)
        /\ required # <<>> =>
             /\ score.num * Len(required) = Len(compResult.matched) * 100 * score.den
             /\ 0 <= score.num /\ score.num <= 100 * score.den

\* A run with matched, missing and extra entries, two of which differ only in
\* the case of a letter or in surrounding blanks.
C7_Witness ==
  /\ compResult # NULL
  /\ compResult.matched # <<>>
  /\ compResult.missing # <<>>
  /\ compResult.extra # <<>>
  /\ \E q \in Range(compResult.missing), c \in Range(compResult.extra) :
       ToLowerCase(Trim(q)) = ToLowerCase(Trim(c))

WeekdayOf(localDay) == (localDay + 4) % 7

\* C9: for every now, the window starts at local 00:00:00.000 of the most
\* recent Friday on or before now (now's own date on a Friday), ends at
\* 23:59:59.999 of the Thursday six days later, spans 7 calendar days and
\* contains now.
C9_WindowFridayToThursday ==
  winWindow # NULL =>
    LET now == PlusMinutes(winNow, winZone)
        start == PlusMinutes(winWindow.start, winZone)
        end == PlusMinutes(winWindow.end, winZone)
    IN  /\ WeekdayOf(start.day) = 5
        /\ start.ms = 0
        /\ start.day <= now.day /\ now.day - start.day <= 6
        /\ WeekdayOf(now.day) = 5 => start.day = now.day
        /\ end.day = start.day + 6
        /\ WeekdayOf(end.day) = 4
        /\ end.ms = msPerDay - 1
        /\ NotLater(winWindow.start, winNow)
        /\ NotLater(winNow, winWindow.end)

\* A window asked for on a Thursday whose Friday lies in the month before.
C9_Witness ==
  /\ winWindow # NULL
  /\ WeekdayOf(PlusMinutes(winNow, winZone).day) = 4
  /\ CivilFromDay(PlusMinutes(winWindow.start, winZone).day).month
       # CivilFromDay(PlusMinutes(winNow, winZone).day).month

\* The group of a row: the trimmed third and fourth segments of its folder
\* path, <<>> when the path has no such segments.
GroupOfRow(row) ==
  LET segments == SplitChar(JsString(OrEmpty(row.cells[H_Path])), 47)
  IN  IF Len(segments) >= 4 /\ Trim(segments[3]) # <<>> /\ Trim(segments[4]) # <<>>
      THEN <<Trim(segments[3]), Trim(segments[4])>>
      ELSE <<>>

\* The rows of group g that carry a valid timestamp.
StampedRows(rows, g, zone) ==
  {i \in DOMAIN rows :
     /\ GroupOfRow(rows[i]) = g
     /\ UpdateDate(rows[i].cells[H_Updated], zone) \notin {NULL, InvalidDate}}

\* C10: every group of rows has one entry; its latest update is the greatest
\* valid timestamp of the group's rows, whatever their order, with the file
\* name of a row that carries it, and its status is OK iff that timestamp
\* lies within the window, ends included; a group without a valid timestamp
\* is Late.
C10_LatestIsGroupMaximum ==
  wkResult # NULL =>
    LET rows == wkJson.rows
        stamp(i) == UpdateDate(rows[i].cells[H_Updated], wkZone)
        groups == {GroupOfRow(rows[i]) : i \in DOMAIN rows} \ {<<>>}
    IN  /\ Len(wkResult.items) = Cardinality(groups)
        /\ \A g \in groups :
             \E k \in DOMAIN wkResult.items :
               LET r == wkResult.items[k]
                   stamped == StampedRows(rows, g, wkZone)
                   top == CHOOSE i \in stamped :
                            \A j \in stamped : NotLater(stamp(j), stamp(i))
               IN  /\ r.building = g[1] /\ r.deliverable = g[2]
                   /\ IF stamped = {}
                      THEN r.latestUpdate = NULL /\ r.status = "Late"
                      ELSE /\ r.latestUpdate = stamp(top)
                           /\ \E i \in stamped :
                                /\ stamp(i) = stamp(top)
                                /\ r.latestFileName = JsString(rows[i].cells[H_Name])
                           /\ r.status =
                                IF /\ NotLater(wkSummary.windowStart, stamp(top))
                                   /\ NotLater(stamp(top), wkSummary.windowEnd)
                                THEN "OK" ELSE "Late"

\* ------------------------------------------------------------------------
\* Specifications
\* ------------------------------------------------------------------------

Init ==
  /\ InitText
  /\ InitMidp
  /\ InitTok
  /\ InitFn
  /\ InitQaqc
  /\ InitComp
  /\ InitWin
  /\ InitWk
  /\ InitQ2
  /\ InitChk
  /\ InitFrame
  /\ InitHdr
  /\ InitClash
  /\ InitFill
  /\ InitSel
  /\ InitAn

Next ==
  \/ NextText
  \/ NextMidp
  \/ NextTok
  \/ NextFn
  \/ NextQaqc
  \/ NextComp
  \/ NextWin
  \/ NextWk
  \/ NextQ2
  \/ NextChk
  \/ NextFrame
  \/ NextHdr
  \/ NextClash
  \/ NextFill
  \/ NextRace
  \/ NextSel
  \/ NextAn

\* The whole application.
Spec == Init /\ [][Next]_vars

\* One page (or the normalizer) at a time, the rest of the application idle.
SpecText == Init /\ [][NextText]_vars

SpecMidp == Init /\ [][NextMidp]_vars

SpecTok == Init /\ [][NextTok]_vars

SpecQaqc == Init /\ [][NextQaqc]_vars

SpecComp == Init /\ [][NextComp]_vars

SpecWin == Init /\ [][NextWin]_vars

SpecWk == Init /\ [][NextWk]_vars

SpecFn == Init /\ [][NextFn]_vars

SpecQ2 == Init /\ [][NextQ2]_vars

SpecChk == Init /\ [][NextChk]_vars

SpecFrame == Init /\ [][NextFrame]_vars

SpecHdr == Init /\ [][NextHdr]_vars

SpecClash == Init /\ [][NextClash]_vars

SpecFill == Init /\ [][NextFill]_vars

SpecRace == Init /\ [][NextRace]_vars

SpecSel == Init /\ [][NextSel]_vars

SpecAn == Init /\ [][NextAn]_vars
====
